---- MODULE Spec2Model ----
(***************************************************************************)
(* Z2API (Go optimised version, main.go): the OpenAI-compatible proxy in   *)
(* front of the z.ai chat upstream.                                        *)
(*                                                                         *)
(* Modelled: concurrencyControlMiddleware, chatHandler, getAnonymousToken, *)
(* requestWithRetry / randomDelay, handleNonStreamResponse,                *)
(* handleStreamResponse / processStreamLine and the string helpers they    *)
(* use.  Strings are sequences of tokens: a token is one character or one  *)
(* indivisible piece of text (a tag, a JSON document, the pieces "da" and  *)
(* "ta:" of the SSE prefix), so that trimming, prefix tests, splitting and *)
(* concatenation are computed rather than assumed.                         *)
(***************************************************************************)
EXTENDS Integers, Sequences, FiniteSets, TLC

(***************************************************************************)
(* Bounds of the exploration.                                              *)
(***************************************************************************)
NumReqs == 2          \* concurrent chat requests in the server specification
MaxConc == 1          \* largest MAX_CONCURRENT_CONNECTIONS explored
MaxRetriesBound == 3  \* largest MAX_RETRIES explored
MaxReads == 2         \* upstream body reads per response
MaxMs == 1            \* largest observed response time, in ms
MaxLines == 3         \* lines of an upstream body that is fixed in advance
MaxPieces == 4        \* pieces of a text handed to transformThinking

Reqs == 1..NumReqs

VARIABLES
  \* ---- configuration, frozen by init() / getPerformanceConfig() ----
  maxConcurrentConnections, maxRetries, retryDelay, randomDelayMin, randomDelayMax,
  upstreamURL, anonTokenEnabled, thinkTagsMode,
  disableConnectionCheck, connectionCheckInterval, streamBufferSize, performanceMode,
  \* ---- the upstream: the lines of the response body it sends, when they are fixed ----
  upstreamBody,
  \* ---- the clients: the method of the request each of them sends to /v1/chat/completions ----
  reqMethod,
  \* ---- process-wide state ----
  connectionSemaphore,   \* number of permits in the buffered channel
  currentConnections, requestCount, errorCount, totalResponseTime,
  \* ---- per request: position, what the client has received ----
  pc, status, out,
  responseTime,           \* history: time.Since(startTime) in ms when the handler ends
  \* ---- per request: the HTTP request as the client sent it ----
  request,
  \* ---- per request: chatHandler locals ----
  isStream, authToken, ctxDone,
  clientTimer,            \* the Timeout of the http.Client that made the latest attempt
  chatReqModel,           \* chatReq.Model, "" until the body is decoded or if it names none
  anonFetch,              \* history: how the GET for an anonymous token ended
  loaded,                 \* go-version chatHandler: the value read by a ++ or += in progress
  \* ---- per request: requestWithRetry locals and its return values ----
  i, lastErr, retResp, retErr,
  timer,                  \* the duration in ms of the sleep in progress, -1 if there is none
  attempts, lastAttempt,  \* history: client.Do calls made, outcome of the latest
  \* ---- per request: handleStreamResponse / handleNonStreamResponse locals ----
  lineBuffer, isInThinkBlock, bufferedThinkContent, streamClosed,
  checkCounter, sentInitialAnswer, fullContent,
  reads, bodyEnded,       \* history: reads made, upstream body reported its end
  probes,                 \* history: calls of isConnectionAlive made
  bodyRead,               \* history: length of what resp.Body.Read has returned so far
  \* ---- transformThinking on its own: a text, and what repeated calls make of it ----
  transformed

cfgVars == <<maxConcurrentConnections, maxRetries, retryDelay, randomDelayMin, randomDelayMax,
             upstreamURL, anonTokenEnabled, thinkTagsMode,
             disableConnectionCheck, connectionCheckInterval, streamBufferSize,
             performanceMode, upstreamBody, reqMethod>>
counterVars == <<requestCount, errorCount, totalResponseTime>>
gateVars == <<connectionSemaphore, currentConnections>>
clientVars == <<status, out, responseTime>>
chatVars == <<request, isStream, chatReqModel, authToken, anonFetch, loaded>>
retryVars == <<i, lastErr, retResp, retErr, timer, attempts, lastAttempt>>
streamVars == <<lineBuffer, isInThinkBlock, bufferedThinkContent, streamClosed,
                checkCounter, sentInitialAnswer, fullContent, reads, bodyEnded,
                probes, bodyRead, transformed>>
vars == <<cfgVars, counterVars, gateVars, pc, clientVars, chatVars, ctxDone, clientTimer,
          retryVars, streamVars>>

(***************************************************************************)
(* Strings as token sequences.                                             *)
(***************************************************************************)
IsSpace(t) == t \in {" ", "\n", "\r", "\t"}

RECURSIVE TrimLeft(_)
TrimLeft(s) == IF s # <<>> /\ IsSpace(Head(s)) THEN TrimLeft(Tail(s)) ELSE s

RECURSIVE TrimRight(_)
TrimRight(s) ==
  IF s # <<>> /\ IsSpace(s[Len(s)]) THEN TrimRight(SubSeq(s, 1, Len(s) - 1)) ELSE s

\* strings.TrimSpace
TrimSpace(s) == TrimRight(TrimLeft(s))

\* strings.HasPrefix
HasPrefix(s, p) == Len(s) >= Len(p) /\ SubSeq(s, 1, Len(p)) = p

\* strings.TrimPrefix
TrimPrefix(s, p) == IF HasPrefix(s, p) THEN SubSeq(s, Len(p) + 1, Len(s)) ELSE s

(***************************************************************************)
(* What the client receives: one record per body written.                  *)
(***************************************************************************)
ErrorJSON(msg) == [kind |-> "error", text |-> <<msg>>]

\* json.NewEncoder(w).Encode(ErrorResponse{...}): details, retry_after and
\* performance_mode are omitempty
ErrorResponse(error, details, retryAfter, mode) ==
  LET keys == {"kind", "text"}
                \cup (IF details # "" THEN {"details"} ELSE {})
                \cup (IF retryAfter # 0 THEN {"retry_after"} ELSE {})
                \cup (IF mode # "" THEN {"performance_mode"} ELSE {})
  IN  [k \in keys |->
         CASE k = "kind" -> "error"
           [] k = "text" -> <<error>>
           [] k = "details" -> details
           [] k = "retry_after" -> retryAfter
           [] k = "performance_mode" -> mode]

defaultKey == <<"KEY">>
upstreamToken == <<"UPSTREAM_TOKEN">>

(***************************************************************************)
(* concurrencyControlMiddleware                                            *)
(***************************************************************************)
\* Arrive, except that a rejected request is counted as a failed request
Arrive_RejectCounted(r) ==
  /\ pc[r] = "idle"
  /\ IF connectionSemaphore < maxConcurrentConnections
     THEN /\ connectionSemaphore' = connectionSemaphore + 1
          /\ pc' = [pc EXCEPT ![r] = "acquired"]
          /\ UNCHANGED <<clientVars, counterVars>>
     ELSE /\ status' = [status EXCEPT ![r] = 503]
          /\ out' = [out EXCEPT ![r] = <<ErrorJSON("Server too busy, please try again later")>>]
          /\ pc' = [pc EXCEPT ![r] = "rejected"]
          /\ UNCHANGED responseTime
          /\ requestCount' = requestCount + 1
          /\ errorCount' = errorCount + 1
          /\ UNCHANGED <<connectionSemaphore, totalResponseTime>>
  /\ UNCHANGED <<cfgVars, currentConnections, chatVars, ctxDone, clientTimer, retryVars, streamVars>>

\* select { case connectionSemaphore <- struct{}{}: ... default: 503 }
Arrive(r) ==
  /\ pc[r] = "idle"
  /\ IF connectionSemaphore < maxConcurrentConnections
     THEN /\ connectionSemaphore' = connectionSemaphore + 1
          /\ pc' = [pc EXCEPT ![r] = "acquired"]
          /\ UNCHANGED clientVars
     ELSE /\ status' = [status EXCEPT ![r] = 503]
          /\ out' = [out EXCEPT ![r] = <<ErrorJSON("Server too busy, please try again later")>>]
          /\ pc' = [pc EXCEPT ![r] = "rejected"]
          /\ UNCHANGED <<connectionSemaphore, responseTime>>
  /\ UNCHANGED <<cfgVars, counterVars, currentConnections, chatVars, ctxDone, clientTimer,
                 retryVars, streamVars>>

\* CountUp, except that the handler is called without counting the connection
CountUp_NotCounted(r) ==
  /\ pc[r] = "acquired"
  /\ pc' = [pc EXCEPT ![r] = "chat"]
  /\ UNCHANGED <<cfgVars, counterVars, gateVars, clientVars, chatVars,
                 ctxDone, clientTimer, retryVars, streamVars>>

\* atomic.AddInt64(&currentConnections, 1), then next(w, r) is called
CountUp(r) ==
  /\ pc[r] = "acquired"
  /\ currentConnections' = currentConnections + 1
  /\ pc' = [pc EXCEPT ![r] = "chat"]
  /\ UNCHANGED <<cfgVars, counterVars, connectionSemaphore, clientVars, chatVars,
                 ctxDone, clientTimer, retryVars, streamVars>>

\* Release, except that the permit is given back only after a response with status 200
Release_OnlyAfterSuccess(r) ==
  /\ pc[r] = "deferred"
  /\ connectionSemaphore' = IF status[r] = 200 THEN connectionSemaphore - 1
                            ELSE connectionSemaphore
  /\ pc' = [pc EXCEPT ![r] = "released"]
  /\ UNCHANGED <<cfgVars, counterVars, currentConnections, clientVars, chatVars,
                 ctxDone, clientTimer, retryVars, streamVars>>

\* deferred function, first statement: <-connectionSemaphore
Release(r) ==
  /\ pc[r] = "deferred"
  /\ connectionSemaphore' = connectionSemaphore - 1
  /\ pc' = [pc EXCEPT ![r] = "released"]
  /\ UNCHANGED <<cfgVars, counterVars, currentConnections, clientVars, chatVars,
                 ctxDone, clientTimer, retryVars, streamVars>>

\* deferred function, second statement: atomic.AddInt64(&currentConnections, -1)
CountDown(r) ==
  /\ pc[r] = "released"
  /\ currentConnections' = currentConnections - 1
  /\ pc' = [pc EXCEPT ![r] = "done"]
  /\ UNCHANGED <<cfgVars, counterVars, connectionSemaphore, clientVars, chatVars,
                 ctxDone, clientTimer, retryVars, streamVars>>

(***************************************************************************)
(* chatHandler, up to the token choice                                     *)
(***************************************************************************)
\* key := strings.TrimSpace(strings.TrimPrefix(auth, "Bearer "))
KeyOf(auth) == TrimSpace(TrimPrefix(auth, <<"Bearer ">>))

\* Authorization headers a client may send
AuthHeaders ==
  { <<>>, <<"Bearer ", "KEY">>, <<"KEY">>, <<"Bearer ", "BAD">>, <<"Bearer ", " ", "KEY">> }

\* the methods of the requests that main's mux hands to the handler registered for
\* /v1/chat/completions: http.HandleFunc registers a handler for a path, whatever the method
Methods == {"POST", "OPTIONS"}

\* the public model names
defaultModelName == "GLM-4.5"
thinkingModelName == "GLM-4.5-Thinking"
searchModelName == "GLM-4.5-Search"

\* the model a request can name: none, or one of the public names
ModelNames == {"", defaultModelName, thinkingModelName, searchModelName}

\* the request as chatHandler reads it: whether io.ReadAll(r.Body) succeeds, the
\* Authorization header, whether the body is JSON for an OpenAIRequest
Request(bodyOk, auth, jsonOk) == [bodyOk |-> bodyOk, auth |-> auth, jsonOk |-> jsonOk]

NoRequest == Request(TRUE, <<>>, TRUE)

\* ChatFail, except that the failure is not counted
ChatFail_NotCounted(r, code, msg, ms) ==
  /\ UNCHANGED errorCount
  /\ responseTime' = [responseTime EXCEPT ![r] = ms]
  /\ status' = [status EXCEPT ![r] = code]
  /\ out' = [out EXCEPT ![r] = <<ErrorJSON(msg)>>]
  /\ pc' = [pc EXCEPT ![r] = "deferred"]
  /\ UNCHANGED <<isStream, chatReqModel>>

\* atomic.AddInt64(&errorCount, 1); logResponse(..., time.Since(startTime).Milliseconds(), ...);
\* the status and the JSON error body; return
ChatFail(r, code, msg, ms) ==
  /\ errorCount' = errorCount + 1
  /\ responseTime' = [responseTime EXCEPT ![r] = ms]
  /\ status' = [status EXCEPT ![r] = code]
  /\ out' = [out EXCEPT ![r] = <<ErrorJSON(msg)>>]
  /\ pc' = [pc EXCEPT ![r] = "deferred"]
  /\ UNCHANGED <<isStream, chatReqModel>>

\* ChatBegin, except that the body is decoded before the key is checked
ChatBegin_JSONFirst(r, bodyOk, auth, jsonOk, stream, model, ms) ==
  /\ pc[r] = "chat"
  /\ requestCount' = requestCount + 1
  /\ request' = [request EXCEPT ![r] = Request(bodyOk, auth, jsonOk)]
  /\ IF ~bodyOk
     THEN ChatFail(r, 400, "Failed to read request body", ms)
     ELSE IF ~jsonOk
     THEN ChatFail(r, 400, "Invalid JSON format", ms)
     ELSE IF KeyOf(auth) # defaultKey
     THEN ChatFail(r, 401, "Unauthorized", ms)
     ELSE /\ isStream' = [isStream EXCEPT ![r] = stream]
          /\ chatReqModel' = [chatReqModel EXCEPT ![r] = model]
          /\ pc' = [pc EXCEPT ![r] = "token"]
          /\ UNCHANGED <<errorCount, clientVars>>
  /\ UNCHANGED <<cfgVars, totalResponseTime, gateVars, authToken, anonFetch, loaded, ctxDone, clientTimer,
                 retryVars, streamVars>>

\* requestCount++, io.ReadAll, the key check, json.Unmarshal
ChatBegin(r, bodyOk, auth, jsonOk, stream, model, ms) ==
  /\ pc[r] = "chat"
  /\ requestCount' = requestCount + 1
  /\ request' = [request EXCEPT ![r] = Request(bodyOk, auth, jsonOk)]
  /\ IF ~bodyOk
     THEN ChatFail(r, 400, "Failed to read request body", ms)
     ELSE IF KeyOf(auth) # defaultKey
     THEN ChatFail(r, 401, "Unauthorized", ms)
     ELSE IF ~jsonOk
     THEN ChatFail(r, 400, "Invalid JSON format", ms)
     ELSE /\ isStream' = [isStream EXCEPT ![r] = stream]
          /\ chatReqModel' = [chatReqModel EXCEPT ![r] = model]
          /\ pc' = [pc EXCEPT ![r] = "token"]
          /\ UNCHANGED <<errorCount, clientVars>>
  /\ UNCHANGED <<cfgVars, totalResponseTime, gateVars, authToken, anonFetch, loaded, ctxDone, clientTimer,
                 retryVars, streamVars>>

\* getAnonymousToken: the outcomes of the GET to /api/v1/auths/
FetchOutcomes == {"ok", "neterr", "non200", "badjson", "empty"}

\* ChatToken, except that an anonymous token another request has fetched is used again
ChatToken_CachedToken(r, fetch) ==
  /\ pc[r] = "token"
  /\ authToken' = [authToken EXCEPT ![r] =
                     IF anonTokenEnabled /\ fetch = "ok"
                     THEN IF \E q \in Reqs : authToken[q] = <<"ANON", q>>
                          THEN <<"ANON", CHOOSE q \in Reqs : authToken[q] = <<"ANON", q>> >>
                          ELSE <<"ANON", r>>
                     ELSE upstreamToken]
  /\ anonFetch' = [anonFetch EXCEPT ![r] = IF anonTokenEnabled THEN fetch ELSE "none"]
  /\ i' = [i EXCEPT ![r] = 0]
  /\ lastErr' = [lastErr EXCEPT ![r] = "nil"]
  /\ pc' = [pc EXCEPT ![r] = "loop"]
  /\ UNCHANGED <<cfgVars, counterVars, gateVars, clientVars, request, isStream,
                 chatReqModel, loaded, ctxDone, clientTimer,
                 retResp, retErr, timer, attempts, lastAttempt, streamVars>>

\* authToken := upstreamToken; if anonTokenEnabled { t, err := getAnonymousToken() ... };
\* then context.WithTimeout and the call of requestWithRetry (i := 0, lastErr := nil)
ChatToken(r, fetch) ==
  /\ pc[r] = "token"
  /\ authToken' = [authToken EXCEPT ![r] =
                     IF anonTokenEnabled /\ fetch = "ok" THEN <<"ANON", r>> ELSE upstreamToken]
  /\ anonFetch' = [anonFetch EXCEPT ![r] = IF anonTokenEnabled THEN fetch ELSE "none"]
  /\ i' = [i EXCEPT ![r] = 0]
  /\ lastErr' = [lastErr EXCEPT ![r] = "nil"]
  /\ pc' = [pc EXCEPT ![r] = "loop"]
  /\ UNCHANGED <<cfgVars, counterVars, gateVars, clientVars, request, isStream,
                 chatReqModel, loaded, ctxDone, clientTimer,
                 retResp, retErr, timer, attempts, lastAttempt, streamVars>>

\* math.Min
Min(a, b) == IF a <= b THEN a ELSE b

(***************************************************************************)
(* requestWithRetry                                                        *)
(***************************************************************************)
\* return nil, err
ReturnErr(r, e) ==
  /\ retErr' = [retErr EXCEPT ![r] = e]
  /\ timer' = [timer EXCEPT ![r] = -1]
  /\ pc' = [pc EXCEPT ![r] = "dispatched"]
  /\ UNCHANGED <<i, lastErr, retResp, attempts, lastAttempt>>

\* http.NewRequestWithContext, the headers, client.Do is started
BuildRequest(r) ==
  /\ timer' = [timer EXCEPT ![r] = -1]
  /\ IF upstreamURL = "unparsable"
     THEN /\ lastErr' = [lastErr EXCEPT ![r] = "newrequest"]
          /\ i' = [i EXCEPT ![r] = i[r] + 1]
          /\ pc' = [pc EXCEPT ![r] = "loop"]
          /\ UNCHANGED <<retResp, retErr, attempts, lastAttempt>>
     ELSE /\ attempts' = [attempts EXCEPT ![r] = attempts[r] + 1]
          /\ pc' = [pc EXCEPT ![r] = "attempt"]
          /\ UNCHANGED <<i, lastErr, retResp, retErr, lastAttempt>>

\* randomDelay(): if randomDelayMax > randomDelayMin { delay := mathrand.Intn(max-min) + min;
\* time.Sleep(delay ms) }
RandomDelay(r) ==
  IF randomDelayMax > randomDelayMin
  THEN /\ \E delay \in randomDelayMin..(randomDelayMax - 1) :
            timer' = [timer EXCEPT ![r] = delay]
       /\ pc' = [pc EXCEPT ![r] = "jitter"]
       /\ UNCHANGED <<i, lastErr, retResp, retErr, attempts, lastAttempt>>
  ELSE BuildRequest(r)

\* for i := 0; i < maxRetries; i++ { if i > 0 { select ... } ... }  and the code after the loop
LoopHead(r) ==
  /\ pc[r] = "loop"
  /\ IF i[r] >= maxRetries
     THEN ReturnErr(r, IF lastErr[r] = "nil" THEN "allfailed" ELSE lastErr[r])
     ELSE IF i[r] > 0
     THEN /\ timer' = [timer EXCEPT ![r] = retryDelay * 2^(i[r])]
          /\ pc' = [pc EXCEPT ![r] = "backoff"]
          /\ UNCHANGED <<i, lastErr, retResp, retErr, attempts, lastAttempt>>
     ELSE RandomDelay(r)
  /\ UNCHANGED <<cfgVars, counterVars, gateVars, clientVars, chatVars, ctxDone, clientTimer, streamVars>>

\* case <-time.After(delay):
BackoffElapsed(r) ==
  /\ pc[r] = "backoff"
  /\ ~ctxDone[r]
  /\ RandomDelay(r)
  /\ UNCHANGED <<cfgVars, counterVars, gateVars, clientVars, chatVars, ctxDone, clientTimer, streamVars>>

\* case <-ctx.Done(): return nil, ctx.Err()
BackoffCancelled(r) ==
  /\ pc[r] = "backoff"
  /\ ctxDone[r]
  /\ ReturnErr(r, "ctxErr")
  /\ UNCHANGED <<cfgVars, counterVars, gateVars, clientVars, chatVars, ctxDone, clientTimer, streamVars>>

\* time.Sleep(delay) inside randomDelay returns
JitterElapsed(r) ==
  /\ pc[r] = "jitter"
  /\ BuildRequest(r)
  /\ UNCHANGED <<cfgVars, counterVars, gateVars, clientVars, chatVars, ctxDone, clientTimer, streamVars>>

\* what client.Do can return: a response with a status, or an error
\* (network failure, the client's own Timeout, the request context being done)
AttemptOutcomes == {"200", "429", "403", "500", "transport", "timeout", "ctx"}

\* AttemptReturn, except that a 200 is not returned but handled as any other status
AttemptReturn_NoReturnOn200(r, outcome) ==
  /\ pc[r] = "attempt"
  /\ (outcome = "ctx") <=> ctxDone[r]
  /\ lastAttempt' = [lastAttempt EXCEPT ![r] = outcome]
  /\ clientTimer' = [clientTimer EXCEPT ![r] = IF outcome = "200" THEN "running" ELSE "none"]
  /\ IF outcome \in {"transport", "timeout", "ctx"}
     THEN /\ lastErr' = [lastErr EXCEPT ![r] = outcome]
          /\ i' = [i EXCEPT ![r] = i[r] + 1]
          /\ pc' = [pc EXCEPT ![r] = "loop"]
          /\ UNCHANGED <<retResp, retErr, timer>>
     ELSE IF outcome \in {"429", "403"}
     THEN /\ timer' = [timer EXCEPT ![r] = Min(retryDelay * 2^(i[r]), 10000)]
          /\ pc' = [pc EXCEPT ![r] = "ratewait"]
          /\ UNCHANGED <<i, lastErr, retResp, retErr>>
     ELSE /\ lastErr' = [lastErr EXCEPT ![r] = "HTTP" \o outcome]
          /\ i' = [i EXCEPT ![r] = i[r] + 1]
          /\ pc' = [pc EXCEPT ![r] = "loop"]
          /\ UNCHANGED <<retResp, retErr, timer>>
  /\ UNCHANGED <<cfgVars, counterVars, gateVars, clientVars, chatVars, ctxDone,
                 attempts, streamVars>>

\* resp, err := client.Do(req) returns, and the rest of the loop body
AttemptReturn(r, outcome) ==
  /\ pc[r] = "attempt"
  /\ (outcome = "ctx") <=> ctxDone[r]
  /\ lastAttempt' = [lastAttempt EXCEPT ![r] = outcome]
  /\ clientTimer' = [clientTimer EXCEPT ![r] = IF outcome = "200" THEN "running" ELSE "none"]
  /\ IF outcome \in {"transport", "timeout", "ctx"}
     THEN /\ lastErr' = [lastErr EXCEPT ![r] = outcome]
          /\ i' = [i EXCEPT ![r] = i[r] + 1]
          /\ pc' = [pc EXCEPT ![r] = "loop"]
          /\ UNCHANGED <<retResp, retErr, timer>>
     ELSE IF outcome = "200"
     THEN /\ retResp' = [retResp EXCEPT ![r] = TRUE]
          /\ pc' = [pc EXCEPT ![r] = "dispatched"]
          /\ UNCHANGED <<i, lastErr, retErr, timer>>
     ELSE IF outcome \in {"429", "403"}
     THEN /\ timer' = [timer EXCEPT ![r] = Min(retryDelay * 2^(i[r]), 10000)]
          /\ pc' = [pc EXCEPT ![r] = "ratewait"]
          /\ UNCHANGED <<i, lastErr, retResp, retErr>>
     ELSE /\ lastErr' = [lastErr EXCEPT ![r] = "HTTP500"]
          /\ i' = [i EXCEPT ![r] = i[r] + 1]
          /\ pc' = [pc EXCEPT ![r] = "loop"]
          /\ UNCHANGED <<retResp, retErr, timer>>
  /\ UNCHANGED <<cfgVars, counterVars, gateVars, clientVars, chatVars, ctxDone,
                 attempts, streamVars>>

\* WaitElapsed, except that a 429/403 does not use up an attempt
WaitElapsed_NoCount(r) ==
  /\ pc[r] = "ratewait"
  /\ ~ctxDone[r]
  /\ timer' = [timer EXCEPT ![r] = -1]
  /\ pc' = [pc EXCEPT ![r] = "loop"]
  /\ UNCHANGED <<cfgVars, counterVars, gateVars, clientVars, chatVars, ctxDone, clientTimer,
                 i, lastErr, retResp, retErr, attempts, lastAttempt, streamVars>>

\* 429/403: case <-time.After(waitTime): continue
WaitElapsed(r) ==
  /\ pc[r] = "ratewait"
  /\ ~ctxDone[r]
  /\ i' = [i EXCEPT ![r] = i[r] + 1]
  /\ timer' = [timer EXCEPT ![r] = -1]
  /\ pc' = [pc EXCEPT ![r] = "loop"]
  /\ UNCHANGED <<cfgVars, counterVars, gateVars, clientVars, chatVars, ctxDone, clientTimer,
                 lastErr, retResp, retErr, attempts, lastAttempt, streamVars>>

\* 429/403: case <-ctx.Done(): return nil, ctx.Err()
WaitCancelled(r) ==
  /\ pc[r] = "ratewait"
  /\ ctxDone[r]
  /\ ReturnErr(r, "ctxErr")
  /\ UNCHANGED <<cfgVars, counterVars, gateVars, clientVars, chatVars, ctxDone, clientTimer, streamVars>>

\* the deadline of context.WithTimeout(context.Background(), timeoutDuration) passes
Deadline(r) ==
  /\ pc[r] \in {"loop", "backoff", "jitter", "attempt", "ratewait", "dispatched",
                "stream", "nonstream"}
  /\ ~ctxDone[r]
  /\ ctxDone' = [ctxDone EXCEPT ![r] = TRUE]
  /\ UNCHANGED <<cfgVars, counterVars, gateVars, pc, clientVars, chatVars, clientTimer,
                 retryVars, streamVars>>

\* client := &http.Client{Timeout: requestTimeout}: the timer that client.Do starts
\* goes on running after Do has returned the response, and when it expires the reads of
\* the body fail
ClientTimeout(r) ==
  /\ pc[r] \in {"dispatched", "stream", "nonstream"}
  /\ clientTimer[r] = "running"
  /\ clientTimer' = [clientTimer EXCEPT ![r] = "expired"]
  /\ UNCHANGED <<cfgVars, counterVars, gateVars, pc, clientVars, chatVars, ctxDone,
                 retryVars, streamVars>>

(***************************************************************************)
(* More string helpers, and transformThinking                              *)
(***************************************************************************)
\* strings.ReplaceAll(s, old, new), old non-empty
RECURSIVE ReplaceAll(_, _, _)
ReplaceAll(s, old, new) ==
  IF s = <<>> THEN <<>>
  ELSE IF HasPrefix(s, old)
       THEN new \o ReplaceAll(SubSeq(s, Len(old) + 1, Len(s)), old, new)
       ELSE <<Head(s)>> \o ReplaceAll(Tail(s), old, new)

\* positions of token t in s
Positions(s, t) == {p \in 1..Len(s) : s[p] = t}

Least(S) == CHOOSE x \in S : \A y \in S : x <= y
Greatest(S) == CHOOSE x \in S : \A y \in S : x >= y

\* regexp (?s)<summary>.*?</summary> replaced by "": leftmost, shortest spans
RECURSIVE RemoveSummary(_)
RemoveSummary(s) ==
  IF s = <<>> THEN <<>>
  ELSE IF Head(s) = "<summary>" /\ Positions(s, "</summary>") # {}
       THEN RemoveSummary(SubSeq(s, Least(Positions(s, "</summary>")) + 1, Len(s)))
       ELSE <<Head(s)>> \o RemoveSummary(Tail(s))

\* the texts the regexp <details[^>]*> matches
DetailsOpenTags == {"<details>", "<details open>"}

\* regexp <details[^>]*> replaced by new
RECURSIVE ReplaceDetailsOpen(_, _)
ReplaceDetailsOpen(s, new) ==
  IF s = <<>> THEN <<>>
  ELSE (IF Head(s) \in DetailsOpenTags THEN new ELSE <<Head(s)>>)
         \o ReplaceDetailsOpen(Tail(s), new)

\* the switch on thinkTagsMode
ApplyThinkTagsMode(s, mode) ==
  CASE mode = "think" -> ReplaceAll(ReplaceDetailsOpen(s, <<"<think>">>), <<"</details>">>, <<"</think>">>)
    [] mode = "strip" -> ReplaceAll(ReplaceDetailsOpen(s, <<>>), <<"</details>">>, <<>>)
    [] OTHER -> s

\* transformThinkingIn, except that the quote marker of a line is removed whether or not
\* a space follows it
transformThinkingIn_QuoteWithoutSpace(s, mode) ==
  LET s1 == RemoveSummary(s)
      s2 == ReplaceAll(s1, <<"</thinking>">>, <<>>)
      s3 == ReplaceAll(s2, <<"<Full>">>, <<>>)
      s4 == ReplaceAll(s3, <<"</Full>">>, <<>>)
      s5 == TrimSpace(s4)
      s6 == ApplyThinkTagsMode(s5, mode)
      s7 == TrimPrefix(s6, <<">", " ">>)
      s8 == ReplaceAll(s7, <<"\n", ">">>, <<"\n">>)
  IN  TrimSpace(s8)

transformThinkingIn(s, mode) ==
  LET s1 == RemoveSummary(s)
      s2 == ReplaceAll(s1, <<"</thinking>">>, <<>>)
      s3 == ReplaceAll(s2, <<"<Full>">>, <<>>)
      s4 == ReplaceAll(s3, <<"</Full>">>, <<>>)
      s5 == TrimSpace(s4)
      s6 == ApplyThinkTagsMode(s5, mode)
      s7 == TrimPrefix(s6, <<">", " ">>)
      s8 == ReplaceAll(s7, <<"\n", ">", " ">>, <<"\n">>)
  IN  TrimSpace(s8)

transformThinking(s) == transformThinkingIn(s, thinkTagsMode)

\* transformThinking is called on what the previous call returned
Transform ==
  /\ Len(transformed) \in 1..2
  /\ transformed' = Append(transformed, transformThinking(transformed[Len(transformed)]))
  /\ UNCHANGED <<cfgVars, counterVars, gateVars, pc, clientVars, chatVars, ctxDone, clientTimer,
                 retryVars, lineBuffer, isInThinkBlock, bufferedThinkContent, streamClosed,
                 checkCounter, sentInitialAnswer, fullContent, reads, bodyEnded, probes,
                 bodyRead>>

(***************************************************************************)
(* Upstream events: the JSON documents of the upstream SSE stream, each    *)
(* one token, and what json.Unmarshal into UpstreamData makes of them.     *)
(* err: where the document carries an error object.                        *)
(***************************************************************************)
UpstreamData(phase, delta, edit, done, err) ==
  [phase |-> phase, delta |-> delta, edit |-> edit, done |-> done, err |-> err]

Events ==
  [ ans_a       |-> UpstreamData("answer", <<"a">>, <<>>, FALSE, "none"),
    ans_b       |-> UpstreamData("answer", <<"b">>, <<>>, FALSE, "none"),
    think_t     |-> UpstreamData("thinking", <<"<details open>", "t", "</details>">>, <<>>, FALSE, "none"),
    think_q     |-> UpstreamData("thinking", <<">", " ", "q">>, <<>>, FALSE, "none"),
    think_none  |-> UpstreamData("thinking", <<"<summary>", "s", "</summary>">>, <<>>, FALSE, "none"),
    other_o     |-> UpstreamData("other", <<"o">>, <<>>, FALSE, "none"),
    empty       |-> UpstreamData("", <<>>, <<>>, FALSE, "none"),
    done_flag   |-> UpstreamData("", <<>>, <<>>, TRUE, "none"),
    done_phase  |-> UpstreamData("done", <<>>, <<>>, FALSE, "none"),
    done_ans    |-> UpstreamData("answer", <<"z">>, <<>>, TRUE, "none"),
    err_top     |-> UpstreamData("", <<>>, <<>>, FALSE, "top"),
    err_data    |-> UpstreamData("answer", <<"e">>, <<"x", "</details>", "E">>, FALSE, "data"),
    err_inner   |-> UpstreamData("", <<>>, <<>>, TRUE, "inner"),
    edit_h      |-> UpstreamData("answer", <<>>, <<"<details>", "t", "</details>", "H">>, FALSE, "none"),
    edit_two    |-> UpstreamData("answer", <<"c">>, <<"x", "</details>", "A", "</details>", "B">>, FALSE, "none"),
    edit_plain  |-> UpstreamData("answer", <<>>, <<"x">>, FALSE, "none"),
    edit_tail   |-> UpstreamData("answer", <<>>, <<"x", "</details>">>, FALSE, "none"),
    edit_think  |-> UpstreamData("thinking", <<>>, <<"x", "</details>", "T">>, FALSE, "none"),
    reason_r    |-> UpstreamData("", <<>>, <<>>, FALSE, "none") ]

\* the reasoning_content the documents carry: UpstreamData has no field for it, and
\* json.Unmarshal drops the keys a struct has no field for
ReasoningContent == [ reason_r |-> <<"r">> ]

EventNames == DOMAIN Events

\* json.Unmarshal([]byte(jsonText), &upstreamData)
JsonUnmarshal(jsonText) ==
  IF Len(jsonText) = 1 /\ jsonText[1] \in EventNames
  THEN [ok |-> TRUE, data |-> Events[jsonText[1]]]
  ELSE [ok |-> FALSE, data |-> Events["empty"]]

\* the SSE prefix "data: "
DataPrefix == <<"da", "ta:", " ">>

\* regexp </details> Split(out, -1): the pieces between the separators
RECURSIVE SplitDetails(_)
SplitDetails(s) ==
  IF Positions(s, "</details>") = {} THEN <<s>>
  ELSE LET p == Least(Positions(s, "</details>"))
       IN  <<SubSeq(s, 1, p - 1)>> \o SplitDetails(SubSeq(s, p + 1, Len(s)))

(***************************************************************************)
(* The chunks written to the client                                        *)
(***************************************************************************)
Frame(kind, text) == [kind |-> kind, text |-> text]
Opener == Frame("opener", <<>>)
ContentChunk(c) == Frame("content", c)
ReasoningChunk(c) == Frame("reasoning", c)
FinishChunk == Frame("finish", <<>>)
DoneFrame == Frame("done", <<>>)

\* the Model field of the opener, of every chunk and of the non-streaming response
ChunkModel(f) == defaultModelName

\* sendThinkContentSafe: one content chunk "<think>" + content + "</think>"
ThinkChunk(c) == ContentChunk(<<"<think>">> \o c \o <<"</think>">>)

(***************************************************************************)
(* processStreamLine: the frames it writes and the flags it sets.          *)
(* It reads isInThinkBlock and bufferedThinkContent and never assigns them.*)
(***************************************************************************)
Processed(closed, sent, frames) == [closed |-> closed, sent |-> sent, frames |-> frames]

\* ProcessEvent, except that an upstream error does not close the stream
ProcessEvent_ErrorKeepsOpen(d, sent) ==
  IF d.err # "none"
  THEN [closed |-> FALSE, sent |-> sent,
        frames |-> <<[kind |-> "finish", text |-> <<>>], [kind |-> "done", text |-> <<>>]>>]
  ELSE LET tt == transformThinking(d.delta)
           f2 == IF d.delta = <<>> THEN <<>>
                 ELSE IF d.phase = "thinking"
                      THEN (IF tt # <<>> THEN <<[kind |-> "reasoning", text |-> tt]>> ELSE <<>>)
                      ELSE <<[kind |-> "content", text |-> d.delta]>>
           fin == d.done \/ d.phase = "done"
           f3 == IF fin THEN <<[kind |-> "finish", text |-> <<>>], [kind |-> "done", text |-> <<>>]>>
                 ELSE <<>>
       IN  [closed |-> fin, sent |-> sent, frames |-> f2 \o f3]

\* ProcessEvent, except that the error of an event is looked at after its content
ProcessEvent_ErrorAfterContent(d, sent) ==
  LET tt == transformThinking(d.delta)
      f2 == IF d.delta = <<>> THEN <<>>
            ELSE IF d.phase = "thinking"
                 THEN (IF tt # <<>> THEN <<[kind |-> "reasoning", text |-> tt]>> ELSE <<>>)
                 ELSE <<[kind |-> "content", text |-> d.delta]>>
      fin == d.done \/ d.phase = "done" \/ d.err # "none"
      f3 == IF fin THEN <<[kind |-> "finish", text |-> <<>>], [kind |-> "done", text |-> <<>>]>>
            ELSE <<>>
  IN  [closed |-> fin, sent |-> sent, frames |-> f2 \o f3]

\* ProcessEvent, except that thinking is written to the content field
ProcessEvent_ThinkingAsContent(d, sent) ==
  IF d.err # "none"
  THEN [closed |-> TRUE, sent |-> sent,
        frames |-> <<[kind |-> "finish", text |-> <<>>], [kind |-> "done", text |-> <<>>]>>]
  ELSE LET tt == transformThinking(d.delta)
           f2 == IF d.delta = <<>> THEN <<>>
                 ELSE IF d.phase = "thinking"
                      THEN (IF tt # <<>> THEN <<[kind |-> "content", text |-> tt]>> ELSE <<>>)
                      ELSE <<[kind |-> "content", text |-> d.delta]>>
           fin == d.done \/ d.phase = "done"
           f3 == IF fin THEN <<[kind |-> "finish", text |-> <<>>], [kind |-> "done", text |-> <<>>]>>
                 ELSE <<>>
       IN  [closed |-> fin, sent |-> sent, frames |-> f2 \o f3]

\* ProcessEvent, except that the splice does not set sentInitialAnswer
ProcessEvent_SpliceNotLatched(d, sent) ==
  IF d.err # "none"
  THEN Processed(TRUE, sent, <<FinishChunk, DoneFrame>>)
  ELSE LET parts == SplitDetails(d.edit)
           splice == ~sent /\ d.edit # <<>> /\ d.phase = "answer"
                     /\ Len(parts) > 1 /\ parts[2] # <<>>
           f1 == IF splice THEN <<ContentChunk(parts[2])>> ELSE <<>>
           tt == transformThinking(d.delta)
           f2 == IF d.delta = <<>> THEN <<>>
                 ELSE IF d.phase = "thinking"
                      THEN (IF tt # <<>> THEN <<ReasoningChunk(tt)>> ELSE <<>>)
                      ELSE <<ContentChunk(d.delta)>>
           fin == d.done \/ d.phase = "done"
           f3 == IF fin THEN <<FinishChunk, DoneFrame>> ELSE <<>>
       IN  Processed(fin, sent, f1 \o f2 \o f3)

\* the branch for a parsed event
ProcessEvent(d, sent) ==
  IF d.err # "none"
  THEN Processed(TRUE, sent, <<FinishChunk, DoneFrame>>)
  ELSE LET parts == SplitDetails(d.edit)
           splice == ~sent /\ d.edit # <<>> /\ d.phase = "answer"
                     /\ Len(parts) > 1 /\ parts[2] # <<>>
           f1 == IF splice THEN <<ContentChunk(parts[2])>> ELSE <<>>
           tt == transformThinking(d.delta)
           f2 == IF d.delta = <<>> THEN <<>>
                 ELSE IF d.phase = "thinking"
                      THEN (IF tt # <<>> THEN <<ReasoningChunk(tt)>> ELSE <<>>)
                      ELSE <<ContentChunk(d.delta)>>
           fin == d.done \/ d.phase = "done"
           f3 == IF fin THEN <<FinishChunk, DoneFrame>> ELSE <<>>
       IN  Processed(fin, sent \/ splice, f1 \o f2 \o f3)

\* processStreamLine, except that a payload that is not JSON ends the stream
processStreamLine_BadJSONAborts(line0, inThink, buffered, sent) ==
  LET line == TrimSpace(line0)
      jsonText == TrimSpace(SubSeq(line, Len(DataPrefix) + 1, Len(line)))
      parsed == JsonUnmarshal(jsonText)
  IN  IF ~HasPrefix(line, DataPrefix) THEN Processed(FALSE, sent, <<>>)
      ELSE IF jsonText = <<"[DONE]">>
      THEN Processed(TRUE, sent,
                     (IF inThink /\ buffered # <<>> THEN <<ThinkChunk(buffered)>> ELSE <<>>)
                       \o <<DoneFrame>>)
      ELSE IF jsonText = <<>> THEN Processed(FALSE, sent, <<>>)
      ELSE IF ~parsed.ok THEN Processed(TRUE, sent, <<FinishChunk, DoneFrame>>)
      ELSE ProcessEvent(parsed.data, sent)

processStreamLine(line0, inThink, buffered, sent) ==
  LET line == TrimSpace(line0)
      jsonText == TrimSpace(SubSeq(line, Len(DataPrefix) + 1, Len(line)))
      parsed == JsonUnmarshal(jsonText)
  IN  IF ~HasPrefix(line, DataPrefix) THEN Processed(FALSE, sent, <<>>)
      ELSE IF jsonText = <<"[DONE]">>
      THEN Processed(TRUE, sent,
                     (IF inThink /\ buffered # <<>> THEN <<ThinkChunk(buffered)>> ELSE <<>>)
                       \o <<DoneFrame>>)
      ELSE IF jsonText = <<>> THEN Processed(FALSE, sent, <<>>)
      ELSE IF ~parsed.ok THEN Processed(FALSE, sent, <<>>)
      ELSE ProcessEvent(parsed.data, sent)

(***************************************************************************)
(* chatHandler after requestWithRetry has returned                         *)
(***************************************************************************)
\* the response time.Since(startTime) can measure, in ms
Durations == 0..MaxMs

\* *http.response implements http.Flusher, and the middleware passes w on unwrapped
FlusherOk == TRUE

\* ChatDispatched, except that handleStreamResponse writes no opener
ChatDispatched_NoOpener(r, ms) ==
  /\ pc[r] = "dispatched"
  /\ IF retErr[r] # "nil"
     THEN /\ errorCount' = errorCount + 1
          /\ totalResponseTime' = totalResponseTime + ms
          /\ responseTime' = [responseTime EXCEPT ![r] = ms]
          /\ status' = [status EXCEPT ![r] = 502]
          /\ out' = [out EXCEPT ![r] =
                       <<ErrorResponse("External API request failed", retErr[r], 60,
                                       performanceMode)>>]
          /\ pc' = [pc EXCEPT ![r] = "deferred"]
     ELSE IF ~isStream[r]
     THEN /\ pc' = [pc EXCEPT ![r] = "nonstream"]
          /\ UNCHANGED <<errorCount, totalResponseTime, clientVars>>
     ELSE /\ status' = [status EXCEPT ![r] = 200]
          /\ pc' = [pc EXCEPT ![r] = "stream"]
          /\ UNCHANGED <<errorCount, totalResponseTime, out, responseTime>>
  /\ UNCHANGED <<cfgVars, requestCount, gateVars, chatVars, ctxDone, clientTimer, retryVars, streamVars>>

\* ChatDispatched, except that the 502 body carries no retry_after
ChatDispatched_NoRetryAfter(r, ms) ==
  /\ pc[r] = "dispatched"
  /\ IF retErr[r] # "nil"
     THEN /\ errorCount' = errorCount + 1
          /\ totalResponseTime' = totalResponseTime + ms
          /\ responseTime' = [responseTime EXCEPT ![r] = ms]
          /\ status' = [status EXCEPT ![r] = 502]
          /\ out' = [out EXCEPT ![r] =
                       <<[kind |-> "error", text |-> <<"External API request failed">>,
                          details |-> retErr[r], performance_mode |-> performanceMode]>>]
          /\ pc' = [pc EXCEPT ![r] = "deferred"]
     ELSE IF ~isStream[r]
     THEN /\ pc' = [pc EXCEPT ![r] = "nonstream"]
          /\ UNCHANGED <<errorCount, totalResponseTime, clientVars>>
     ELSE /\ status' = [status EXCEPT ![r] = 200]
          /\ out' = [out EXCEPT ![r] = <<[kind |-> "opener", text |-> <<>>]>>]
          /\ pc' = [pc EXCEPT ![r] = "stream"]
          /\ UNCHANGED <<errorCount, totalResponseTime, responseTime>>
  /\ UNCHANGED <<cfgVars, requestCount, gateVars, chatVars, ctxDone, clientTimer, retryVars, streamVars>>

\* if err != nil { 502 ... return }; otherwise handleNonStreamResponse is entered, or
\* handleStreamResponse up to its read loop: the headers, the Flusher assertion, the opener
ChatDispatched(r, ms) ==
  /\ pc[r] = "dispatched"
  /\ IF retErr[r] # "nil"
     THEN /\ errorCount' = errorCount + 1
          /\ totalResponseTime' = totalResponseTime + ms
          /\ responseTime' = [responseTime EXCEPT ![r] = ms]
          /\ status' = [status EXCEPT ![r] = 502]
          /\ out' = [out EXCEPT ![r] =
                       <<ErrorResponse("External API request failed", retErr[r], 60,
                                       performanceMode)>>]
          /\ pc' = [pc EXCEPT ![r] = "deferred"]
     ELSE IF ~isStream[r]
     THEN /\ pc' = [pc EXCEPT ![r] = "nonstream"]
          /\ UNCHANGED <<errorCount, totalResponseTime, clientVars>>
     ELSE IF ~FlusherOk
     THEN /\ status' = [status EXCEPT ![r] = 500]
          /\ out' = [out EXCEPT ![r] = <<Frame("plain", <<"Streaming unsupported">>)>>]
          /\ responseTime' = [responseTime EXCEPT ![r] = ms]
          /\ pc' = [pc EXCEPT ![r] = "deferred"]
          /\ UNCHANGED <<errorCount, totalResponseTime>>
     ELSE /\ status' = [status EXCEPT ![r] = 200]
          /\ out' = [out EXCEPT ![r] = <<Opener>>]
          /\ pc' = [pc EXCEPT ![r] = "stream"]
          /\ UNCHANGED <<errorCount, totalResponseTime, responseTime>>
  /\ UNCHANGED <<cfgVars, requestCount, gateVars, chatVars, ctxDone, clientTimer, retryVars, streamVars>>

(***************************************************************************)
(* handleStreamResponse: the read loop                                     *)
(***************************************************************************)
\* the limit on len(lineBuffer)
LineBufferLimit == 1024 * 1024

\* len() of a string, in bytes; "big" is a run of 1 MiB of bytes without a newline
TokBytes(t) ==
  CASE t \in {" ", "\n", "\r", "\t", ">"} -> 1
    [] t = "big" -> LineBufferLimit
    [] t = "da" -> 2
    [] t = "ta:" -> 3
    [] t = "[DONE]" -> 6
    [] OTHER -> 16

RECURSIVE ByteLen(_)
ByteLen(s) == IF s = <<>> THEN 0 ELSE TokBytes(Head(s)) + ByteLen(Tail(s))

\* if len(lineBuffer) > 1024*1024 { if idx := strings.LastIndex(lineBuffer[:len/2], "\n");
\*   idx > 0 { lineBuffer = lineBuffer[idx+1:] } }
Safeguard(lb) ==
  LET half == ByteLen(lb) \div 2
      cand == {p \in Positions(lb, "\n") :
                 /\ ByteLen(SubSeq(lb, 1, p - 1)) < half
                 /\ ByteLen(SubSeq(lb, 1, p - 1)) > 0}
  IN  IF ByteLen(lb) > LineBufferLimit /\ cand # {}
      THEN SubSeq(lb, Greatest(cand) + 1, Len(lb))
      ELSE lb

\* the loop's locals that a line can change
LoopState(lb, closed, sent, frames) ==
  [lb |-> lb, closed |-> closed, sent |-> sent, frames |-> frames]

\* ProcessLines, except that only the first complete line of the buffer is processed
\* after a read
ProcessLines_OneLinePerRead(st, inThink, buffered) ==
  IF Positions(st.lb, "\n") = {} THEN st
  ELSE LET lineEnd == Least(Positions(st.lb, "\n"))
           line == SubSeq(st.lb, 1, lineEnd - 1)
           rest == SubSeq(st.lb, lineEnd + 1, Len(st.lb))
           res == processStreamLine(line, inThink, buffered, st.sent)
       IN  IF st.closed THEN [lb |-> rest, closed |-> TRUE, sent |-> st.sent, frames |-> st.frames]
           ELSE [lb |-> rest, closed |-> res.closed, sent |-> res.sent,
                 frames |-> st.frames \o res.frames]

\* for { lineEnd := strings.Index(lineBuffer, "\n"); if lineEnd == -1 { break } ... }
RECURSIVE ProcessLines(_, _, _)
ProcessLines(st, inThink, buffered) ==
  IF Positions(st.lb, "\n") = {} THEN st
  ELSE LET lineEnd == Least(Positions(st.lb, "\n"))
           line == SubSeq(st.lb, 1, lineEnd - 1)
           rest == SubSeq(st.lb, lineEnd + 1, Len(st.lb))
           res == processStreamLine(line, inThink, buffered, st.sent)
           st2 == IF st.closed THEN LoopState(rest, TRUE, st.sent, st.frames)
                  ELSE LoopState(rest, res.closed, res.sent, st.frames \o res.frames)
       IN  IF st2.closed THEN st2 ELSE ProcessLines(st2, inThink, buffered)

\* if err == io.EOF { if lineBuffer != "" && !streamClosed { processStreamLine(lineBuffer, ...) } }
AtEOF(st, inThink, buffered) ==
  IF st.lb # <<>> /\ ~st.closed
  THEN LET res == processStreamLine(st.lb, inThink, buffered, st.sent)
       IN  LoopState(st.lb, res.closed, res.sent, st.frames \o res.frames)
  ELSE st

\* what resp.Body.Read can report besides the bytes
ReadErrors == {"nil", "EOF", "other"}

\* StreamRead, except that the client is probed in every iteration
StreamRead_ProbesEveryRead(r, alive, chunk, err) ==
  /\ pc[r] = "stream"
  /\ ~streamClosed[r]
  /\ ByteLen(chunk) <= streamBufferSize
  /\ chunk # <<>> \/ err # "nil"
  /\ ctxDone[r] => err = "other"
  /\ clientTimer[r] = "expired" => err = "other"
  /\ err = "nil" => reads[r] + 1 < MaxReads
  /\ LET counted == IF disableConnectionCheck THEN checkCounter[r] ELSE checkCounter[r] + 1
         probed == ~disableConnectionCheck
         lost == probed /\ ~alive
         st0 == LoopState(Safeguard(lineBuffer[r] \o chunk), FALSE, sentInitialAnswer[r], <<>>)
         st1 == ProcessLines(st0, isInThinkBlock[r], bufferedThinkContent[r])
         st2 == IF err = "EOF" THEN AtEOF(st1, isInThinkBlock[r], bufferedThinkContent[r])
                ELSE st1
     IN  /\ checkCounter' = [checkCounter EXCEPT ![r] = counted]
         /\ probes' = [probes EXCEPT ![r] = IF probed THEN probes[r] + 1 ELSE probes[r]]
         /\ IF lost
            THEN /\ pc' = [pc EXCEPT ![r] = "streamend"]
                 /\ UNCHANGED <<out, lineBuffer, streamClosed, sentInitialAnswer, reads, bodyEnded,
                                bodyRead>>
            ELSE /\ reads' = [reads EXCEPT ![r] = reads[r] + 1]
                 /\ bodyRead' = [bodyRead EXCEPT ![r] = bodyRead[r] + Len(chunk)]
                 /\ bodyEnded' = [bodyEnded EXCEPT ![r] = err]
                 /\ lineBuffer' = [lineBuffer EXCEPT ![r] = st2.lb]
                 /\ streamClosed' = [streamClosed EXCEPT ![r] = st2.closed]
                 /\ sentInitialAnswer' = [sentInitialAnswer EXCEPT ![r] = st2.sent]
                 /\ out' = [out EXCEPT ![r] = out[r] \o st2.frames]
                 /\ pc' = [pc EXCEPT ![r] = IF st2.closed \/ err # "nil" THEN "streamend"
                                            ELSE "stream"]
  /\ UNCHANGED <<cfgVars, counterVars, gateVars, status, responseTime, chatVars, ctxDone, clientTimer,
                 retryVars, isInThinkBlock, bufferedThinkContent, fullContent, transformed>>

\* one iteration of for !streamClosed { ... }: the connection check (alive: what the
\* probe finds), resp.Body.Read (chunk, err), the lines, the end of the body
StreamRead(r, alive, chunk, err) ==
  /\ pc[r] = "stream"
  /\ ~streamClosed[r]
  /\ ByteLen(chunk) <= streamBufferSize
  /\ chunk # <<>> \/ err # "nil"
  /\ ctxDone[r] => err = "other"
  /\ clientTimer[r] = "expired" => err = "other"
  /\ err = "nil" => reads[r] + 1 < MaxReads
  /\ LET counted == IF disableConnectionCheck THEN checkCounter[r] ELSE checkCounter[r] + 1
         probed == ~disableConnectionCheck /\ counted % connectionCheckInterval = 0
         lost == probed /\ ~alive
         st0 == LoopState(Safeguard(lineBuffer[r] \o chunk), FALSE, sentInitialAnswer[r], <<>>)
         st1 == ProcessLines(st0, isInThinkBlock[r], bufferedThinkContent[r])
         st2 == IF err = "EOF" THEN AtEOF(st1, isInThinkBlock[r], bufferedThinkContent[r])
                ELSE st1
     IN  /\ checkCounter' = [checkCounter EXCEPT ![r] = counted]
         /\ probes' = [probes EXCEPT ![r] = IF probed THEN probes[r] + 1 ELSE probes[r]]
         /\ IF lost
            THEN /\ pc' = [pc EXCEPT ![r] = "streamend"]
                 /\ UNCHANGED <<out, lineBuffer, streamClosed, sentInitialAnswer, reads, bodyEnded,
                                bodyRead>>
            ELSE /\ reads' = [reads EXCEPT ![r] = reads[r] + 1]
                 /\ bodyRead' = [bodyRead EXCEPT ![r] = bodyRead[r] + Len(chunk)]
                 /\ bodyEnded' = [bodyEnded EXCEPT ![r] = err]
                 /\ lineBuffer' = [lineBuffer EXCEPT ![r] = st2.lb]
                 /\ streamClosed' = [streamClosed EXCEPT ![r] = st2.closed]
                 /\ sentInitialAnswer' = [sentInitialAnswer EXCEPT ![r] = st2.sent]
                 /\ out' = [out EXCEPT ![r] = out[r] \o st2.frames]
                 /\ pc' = [pc EXCEPT ![r] = IF st2.closed \/ err # "nil" THEN "streamend"
                                            ELSE "stream"]
  /\ UNCHANGED <<cfgVars, counterVars, gateVars, status, responseTime, chatVars, ctxDone, clientTimer,
                 retryVars, isInThinkBlock, bufferedThinkContent, fullContent, transformed>>

\* StreamEnd, except that [DONE] is written after the loop whatever ended it
StreamEnd_AlwaysDone(r, ms) ==
  /\ pc[r] = "streamend"
  /\ responseTime' = [responseTime EXCEPT ![r] = ms]
  /\ out' = [out EXCEPT ![r] =
               out[r] \o (IF isInThinkBlock[r] /\ bufferedThinkContent[r] # <<>>
                          THEN <<ThinkChunk(bufferedThinkContent[r])>> ELSE <<>>)
                      \o <<DoneFrame>>]
  /\ pc' = [pc EXCEPT ![r] = "deferred"]
  /\ UNCHANGED <<cfgVars, counterVars, gateVars, status, chatVars, ctxDone, clientTimer, retryVars,
                 streamVars>>

\* after the loop: if isInThinkBlock && bufferedThinkContent != "" { sendThinkContentSafe };
\* handleStreamResponse and chatHandler return
StreamEnd(r, ms) ==
  /\ pc[r] = "streamend"
  /\ responseTime' = [responseTime EXCEPT ![r] = ms]
  /\ out' = [out EXCEPT ![r] =
               out[r] \o (IF isInThinkBlock[r] /\ bufferedThinkContent[r] # <<>>
                          THEN <<ThinkChunk(bufferedThinkContent[r])>> ELSE <<>>)]
  /\ pc' = [pc EXCEPT ![r] = "deferred"]
  /\ UNCHANGED <<cfgVars, counterVars, gateVars, status, chatVars, ctxDone, clientTimer, retryVars,
                 streamVars>>

(***************************************************************************)
(* handleNonStreamResponse                                                 *)
(***************************************************************************)
\* the response body: one choice, role assistant, the content, finish_reason stop
Completion(content) ==
  [kind |-> "completion", text |-> content, role |-> "assistant", finish_reason |-> "stop"]

\* Aggregate, except that the content of a line replaces what was collected
Aggregate_KeepsLast(line0, content) ==
  LET line == IF line0 # <<>> /\ line0[Len(line0)] = "\r"
              THEN SubSeq(line0, 1, Len(line0) - 1) ELSE line0
      dataStr == TrimPrefix(line, DataPrefix)
      parsed == JsonUnmarshal(dataStr)
      d == parsed.data
      text == IF d.phase = "thinking" THEN transformThinking(d.delta) ELSE d.delta
  IN  IF ~HasPrefix(line, DataPrefix) \/ dataStr = <<>> \/ dataStr = <<"[DONE]">> \/ ~parsed.ok
      THEN [content |-> content, stop |-> FALSE]
      ELSE [content |-> text, stop |-> d.done \/ d.phase = "done"]

\* the loop body for one line scanner.Text() (bufio.ScanLines drops a trailing "\r")
Aggregate(line0, content) ==
  LET line == IF line0 # <<>> /\ line0[Len(line0)] = "\r"
              THEN SubSeq(line0, 1, Len(line0) - 1) ELSE line0
      dataStr == TrimPrefix(line, DataPrefix)
      parsed == JsonUnmarshal(dataStr)
      d == parsed.data
      text == IF d.phase = "thinking" THEN transformThinking(d.delta) ELSE d.delta
  IN  IF ~HasPrefix(line, DataPrefix) \/ dataStr = <<>> \/ dataStr = <<"[DONE]">> \/ ~parsed.ok
      THEN [content |-> content, stop |-> FALSE]
      ELSE [content |-> content \o text, stop |-> d.done \/ d.phase = "done"]

\* totalResponseTime, the 200 JSON body; handleNonStreamResponse and chatHandler return
Respond(r, content, ms) ==
  /\ totalResponseTime' = totalResponseTime + ms
  /\ responseTime' = [responseTime EXCEPT ![r] = ms]
  /\ status' = [status EXCEPT ![r] = 200]
  /\ out' = [out EXCEPT ![r] = <<Completion(content)>>]
  /\ pc' = [pc EXCEPT ![r] = "deferred"]

\* scanner.Scan() yields a line; on a done signal the loop is left and the response written
NonStreamLine(r, line, ms) ==
  /\ pc[r] = "nonstream"
  /\ clientTimer[r] # "expired"
  /\ Positions(line, "\n") = {}
  /\ LET res == Aggregate(line, fullContent[r])
     IN  /\ fullContent' = [fullContent EXCEPT ![r] = res.content]
         /\ reads' = [reads EXCEPT ![r] = reads[r] + 1]
         /\ IF res.stop
            THEN Respond(r, res.content, ms)
            ELSE UNCHANGED <<totalResponseTime, clientVars, pc>>
  /\ UNCHANGED <<cfgVars, requestCount, errorCount, gateVars, chatVars, ctxDone, clientTimer, retryVars,
                 lineBuffer, isInThinkBlock, bufferedThinkContent, streamClosed,
                 checkCounter, sentInitialAnswer, bodyEnded, probes, bodyRead, transformed>>

\* scanner.Scan() returns false: the body ended or its read failed
NonStreamEnd(r, ms) ==
  /\ pc[r] = "nonstream"
  /\ Respond(r, fullContent[r], ms)
  /\ UNCHANGED <<cfgVars, requestCount, errorCount, gateVars, chatVars, ctxDone, clientTimer, retryVars,
                 streamVars>>

(***************************************************************************)
(* Inputs: the lines of an upstream body and the chunks a read can return  *)
(***************************************************************************)
DataLine(payload) == DataPrefix \o payload

\* lines of an upstream body, without their "\n"
Lines ==
  {DataLine(<<e>>) : e \in EventNames}
    \cup { DataLine(<<"[DONE]">>), DataLine(<<"{bad">>), DataLine(<<>>),
           <<"event: x">>, <<>>, <<" ">> \o DataLine(<<"ans_a">>) \o <<"\r">> }

Terminated(l) == l \o <<"\n">>

\* reads that return exactly one line
LineChunks == {Terminated(l) : l \in Lines}

\* reads that return several lines at once, or end in the middle of a line
MixedChunks ==
  { Terminated(DataLine(<<"ans_a">>)) \o Terminated(DataLine(<<"done_flag">>)),
    Terminated(DataLine(<<"[DONE]">>)) \o Terminated(DataLine(<<"ans_b">>)),
    Terminated(DataLine(<<"err_top">>)) \o DataLine(<<"[DONE]">>),
    Terminated(DataLine(<<"ans_a">>)) \o DataLine(<<"ans_b">>) }

\* the last read of a body: nothing, an unterminated line, or complete lines
LastChunks == {<<>>} \cup Lines \cup LineChunks \cup MixedChunks

\* the lines of the upstream bodies that are fixed in advance
BodyLines ==
  { DataLine(<<e>>) : e \in {"ans_a", "ans_b", "think_t", "think_none", "other_o",
                             "done_flag", "err_top", "err_data", "err_inner"} }
    \cup { DataLine(<<"[DONE]">>), DataLine(<<"{bad">>) }

\* the lines that carry a done signal or an error
ClosingLines ==
  { DataLine(<<e>>) : e \in {"done_flag", "err_top", "err_data", "err_inner"} }
    \cup { DataLine(<<"[DONE]">>) }

\* the upstream bodies that are fixed in advance: up to MaxLines lines, at most one
\* line after the first done signal or error
Bodies ==
  UNION { { b \in [1..n -> BodyLines] : \A k \in 1..(n - 2) : b[k] \notin ClosingLines }
          : n \in 0..MaxLines }

\* the lines of the upstream bodies that carry edit_content or reasoning_content
SpliceLines ==
  { DataLine(<<e>>) : e \in {"edit_h", "edit_two", "edit_plain", "edit_tail", "edit_think",
                             "reason_r", "ans_a", "done_flag"} }

\* the upstream bodies with edit_content or reasoning_content: up to MaxLines lines
SpliceBodies == UNION { [1..n -> SpliceLines] : n \in 0..MaxLines }

\* the pieces the texts handed to transformThinking are made of
Pieces == { <<"x">>, <<" ">>, <<"\n">>, <<">">>, <<">", " ">>, <<"</details>">> }

RECURSIVE Concat(_)
Concat(ps) == IF ps = <<>> THEN <<>> ELSE Head(ps) \o Concat(Tail(ps))

\* the texts of up to MaxPieces pieces
Texts == UNION { {Concat(ps) : ps \in [1..n -> Pieces]} : n \in 0..MaxPieces }

\* the bytes of lines from..Len(lines); the last line ends in "\n" or not
RECURSIVE JoinLines(_, _, _)
JoinLines(lines, from, newline) ==
  IF from > Len(lines) THEN <<>>
  ELSE IF from = Len(lines) /\ ~newline THEN lines[from]
  ELSE Terminated(lines[from]) \o JoinLines(lines, from + 1, newline)

(***************************************************************************)
(* Initial states                                                          *)
(***************************************************************************)
\* the state after init(): no request has arrived
InitRequests ==
  /\ connectionSemaphore = 0
  /\ currentConnections = 0
  /\ requestCount = 0
  /\ errorCount = 0
  /\ totalResponseTime = 0
  /\ pc = [r \in Reqs |-> "idle"]
  /\ status = [r \in Reqs |-> 0]
  /\ responseTime = [r \in Reqs |-> 0]
  /\ request = [r \in Reqs |-> NoRequest]
  /\ out = [r \in Reqs |-> <<>>]
  /\ isStream = [r \in Reqs |-> FALSE]
  /\ chatReqModel = [r \in Reqs |-> ""]
  /\ authToken = [r \in Reqs |-> <<>>]
  /\ anonFetch = [r \in Reqs |-> "none"]
  /\ loaded = [r \in Reqs |-> 0]
  /\ ctxDone = [r \in Reqs |-> FALSE]
  /\ clientTimer = [r \in Reqs |-> "none"]
  /\ i = [r \in Reqs |-> 0]
  /\ lastErr = [r \in Reqs |-> "nil"]
  /\ retResp = [r \in Reqs |-> FALSE]
  /\ retErr = [r \in Reqs |-> "nil"]
  /\ timer = [r \in Reqs |-> -1]
  /\ attempts = [r \in Reqs |-> 0]
  /\ lastAttempt = [r \in Reqs |-> "none"]
  /\ lineBuffer = [r \in Reqs |-> <<>>]
  /\ isInThinkBlock = [r \in Reqs |-> FALSE]
  /\ bufferedThinkContent = [r \in Reqs |-> <<>>]
  /\ streamClosed = [r \in Reqs |-> FALSE]
  /\ checkCounter = [r \in Reqs |-> 0]
  /\ sentInitialAnswer = [r \in Reqs |-> FALSE]
  /\ fullContent = [r \in Reqs |-> <<>>]
  /\ reads = [r \in Reqs |-> 0]
  /\ bodyEnded = [r \in Reqs |-> "nil"]
  /\ probes = [r \in Reqs |-> 0]
  /\ bodyRead = [r \in Reqs |-> 0]

\* the server: one attempt per request and no jitter (MAX_RETRIES=1, RANDOM_DELAY_MAX=0),
\* every admission limit up to MaxConc
Init ==
  /\ maxConcurrentConnections \in 0..MaxConc
  /\ maxRetries = 1
  /\ retryDelay = 1000
  /\ randomDelayMin = 0
  /\ randomDelayMax = 0
  /\ upstreamURL = "good"
  /\ anonTokenEnabled = TRUE
  /\ thinkTagsMode = "think"
  /\ disableConnectionCheck = FALSE
  /\ connectionCheckInterval = 20
  /\ streamBufferSize = 16384
  /\ performanceMode = "balanced"
  /\ upstreamBody = <<>>
  /\ reqMethod = [r \in Reqs |-> "POST"]
  /\ transformed = <<>>
  /\ InitRequests

\* one request, every retry configuration
InitRetry ==
  /\ maxConcurrentConnections = 1000
  /\ maxRetries \in 0..MaxRetriesBound
  /\ \E jitter \in {<<0, 2>>, <<2, 2>>} :
       randomDelayMin = jitter[1] /\ randomDelayMax = jitter[2]
  /\ upstreamURL \in {"good", "unparsable"}
  /\ anonTokenEnabled \in BOOLEAN
  /\ thinkTagsMode = "think"
  /\ disableConnectionCheck = FALSE
  /\ connectionCheckInterval = 20
  /\ streamBufferSize = 16384
  /\ \E preset \in {<<"balanced", 1000>>, <<"fast", 200>>} :
       performanceMode = preset[1] /\ retryDelay = preset[2]
  /\ upstreamBody = <<>>
  /\ reqMethod = [r \in Reqs |-> "POST"]
  /\ transformed = <<>>
  /\ InitRequests

\* one request, every translator configuration
InitStream ==
  /\ maxConcurrentConnections = 1000
  /\ maxRetries = 1
  /\ retryDelay = 1000
  /\ randomDelayMin = 0
  /\ randomDelayMax = 0
  /\ upstreamURL = "good"
  /\ anonTokenEnabled = FALSE
  /\ thinkTagsMode \in {"think", "strip", "raw"}
  /\ \E check \in {<<FALSE, 1>>, <<TRUE, 20>>} :
       disableConnectionCheck = check[1] /\ connectionCheckInterval = check[2]
  /\ streamBufferSize = 16384
  /\ performanceMode = "balanced"
  /\ upstreamBody = <<>>
  /\ reqMethod = [r \in Reqs |-> "POST"]
  /\ transformed = <<>>
  /\ InitRequests

\* one request, sent with either method, with and without the anonymous token
InitChat ==
  /\ maxConcurrentConnections = 1000
  /\ maxRetries = 1
  /\ retryDelay = 1000
  /\ randomDelayMin = 0
  /\ randomDelayMax = 0
  /\ upstreamURL = "good"
  /\ anonTokenEnabled \in BOOLEAN
  /\ thinkTagsMode = "think"
  /\ disableConnectionCheck = FALSE
  /\ connectionCheckInterval = 20
  /\ streamBufferSize = 16384
  /\ performanceMode = "balanced"
  /\ upstreamBody = <<>>
  /\ \E m \in Methods : reqMethod = [r \in Reqs |-> m]
  /\ transformed = <<>>
  /\ InitRequests

\* one request, every upstream body of up to MaxLines lines
InitBody ==
  /\ maxConcurrentConnections = 1000
  /\ maxRetries = 1
  /\ retryDelay = 1000
  /\ randomDelayMin = 0
  /\ randomDelayMax = 0
  /\ upstreamURL = "good"
  /\ anonTokenEnabled = FALSE
  /\ thinkTagsMode = "think"
  /\ disableConnectionCheck = FALSE
  /\ connectionCheckInterval = 20
  /\ streamBufferSize = 16384
  /\ performanceMode = "balanced"
  /\ upstreamBody \in Bodies
  /\ reqMethod = [r \in Reqs |-> "POST"]
  /\ transformed = <<>>
  /\ InitRequests

\* one request, every upstream body of up to MaxLines lines with edit_content or
\* reasoning_content
InitSplice ==
  /\ maxConcurrentConnections = 1000
  /\ maxRetries = 1
  /\ retryDelay = 1000
  /\ randomDelayMin = 0
  /\ randomDelayMax = 0
  /\ upstreamURL = "good"
  /\ anonTokenEnabled = FALSE
  /\ thinkTagsMode = "think"
  /\ disableConnectionCheck = FALSE
  /\ connectionCheckInterval = 20
  /\ streamBufferSize = 16384
  /\ performanceMode = "balanced"
  /\ upstreamBody \in SpliceBodies
  /\ reqMethod = [r \in Reqs |-> "POST"]
  /\ transformed = <<>>
  /\ InitRequests

\* concurrent requests, with and without the anonymous token
InitToken ==
  /\ maxConcurrentConnections = 1000
  /\ maxRetries = 1
  /\ retryDelay = 1000
  /\ randomDelayMin = 0
  /\ randomDelayMax = 0
  /\ upstreamURL = "good"
  /\ anonTokenEnabled \in BOOLEAN
  /\ thinkTagsMode = "think"
  /\ disableConnectionCheck = FALSE
  /\ connectionCheckInterval = 20
  /\ streamBufferSize = 16384
  /\ performanceMode = "balanced"
  /\ upstreamBody = <<>>
  /\ reqMethod = [r \in Reqs |-> "POST"]
  /\ transformed = <<>>
  /\ InitRequests

\* no request: a text handed to transformThinking, in each think-tags mode
InitThink ==
  /\ maxConcurrentConnections = 1000
  /\ maxRetries = 1
  /\ retryDelay = 1000
  /\ randomDelayMin = 0
  /\ randomDelayMax = 0
  /\ upstreamURL = "good"
  /\ anonTokenEnabled = FALSE
  /\ thinkTagsMode \in {"think", "strip", "raw"}
  /\ disableConnectionCheck = FALSE
  /\ connectionCheckInterval = 20
  /\ streamBufferSize = 16384
  /\ performanceMode = "balanced"
  /\ upstreamBody = <<>>
  /\ reqMethod = [r \in Reqs |-> "POST"]
  /\ transformed \in {<<s>> : s \in Texts}
  /\ InitRequests

(***************************************************************************)
(* Next-state relations                                                    *)
(***************************************************************************)
\* the server: concurrent requests, each with a short upstream exchange
Next ==
  \E r \in Reqs :
    \/ Arrive(r)
    \/ CountUp(r)
    \/ \E bodyOk \in BOOLEAN, auth \in {<<"Bearer ", "KEY">>, <<>>}, stream \in BOOLEAN :
         ChatBegin(r, bodyOk, auth, TRUE, stream, defaultModelName, 1)
    \/ ChatToken(r, "ok")
    \/ LoopHead(r)
    \/ \E outcome \in {"200", "500"} : AttemptReturn(r, outcome)
    \/ ChatDispatched(r, 1)
    \/ StreamRead(r, TRUE, Terminated(DataLine(<<"[DONE]">>)), "EOF")
    \/ StreamEnd(r, 1)
    \/ NonStreamEnd(r, 1)
    \/ Release(r)
    \/ CountDown(r)

Spec == Init /\ [][Next]_vars

\* the dispatcher: one request, every outcome of every attempt, the deadline at any point
NextRetry ==
  \E r \in {1} :
    \/ Arrive(r)
    \/ CountUp(r)
    \/ \E stream \in BOOLEAN : ChatBegin(r, TRUE, <<"Bearer ", "KEY">>, TRUE, stream, defaultModelName, 0)
    \/ \E fetch \in {"ok", "neterr"} : ChatToken(r, fetch)
    \/ LoopHead(r)
    \/ BackoffElapsed(r)
    \/ BackoffCancelled(r)
    \/ JitterElapsed(r)
    \/ \E outcome \in AttemptOutcomes : AttemptReturn(r, outcome)
    \/ WaitElapsed(r)
    \/ WaitCancelled(r)
    \/ Deadline(r)
    \/ \E ms \in Durations : ChatDispatched(r, ms)
    \/ \E chunk \in {Terminated(DataLine(<<"[DONE]">>)), <<>>}, err \in {"EOF", "other"} :
         StreamRead(r, TRUE, chunk, err)
    \/ \E ms \in Durations : StreamEnd(r, ms)
    \/ \E ms \in Durations :
         reads[r] < MaxReads /\ NonStreamLine(r, DataLine(<<"done_ans">>), ms)
    \/ \E ms \in Durations : NonStreamEnd(r, ms)
    \/ Release(r)
    \/ CountDown(r)

SpecRetry == InitRetry /\ [][NextRetry]_vars

\* the translator and the aggregator: one request, every request shape, every upstream body
NextStream ==
  \E r \in {1} :
    \/ Arrive(r)
    \/ CountUp(r)
    \/ \E bodyOk \in BOOLEAN, auth \in {<<"Bearer ", "KEY">>, <<>>}, jsonOk \in BOOLEAN,
          stream \in BOOLEAN :
         ChatBegin(r, bodyOk, auth, jsonOk, stream, defaultModelName, 1)
    \/ ChatToken(r, "ok")
    \/ LoopHead(r)
    \/ \E outcome \in {"200", "500", "transport", "ctx"} : AttemptReturn(r, outcome)
    \/ Deadline(r)
    \/ \E ms \in Durations : ChatDispatched(r, ms)
    \/ \E chunk \in LineChunks \cup MixedChunks : StreamRead(r, TRUE, chunk, "nil")
    \/ \E chunk \in LastChunks : StreamRead(r, TRUE, chunk, "EOF")
    \/ \E chunk \in LastChunks : StreamRead(r, TRUE, chunk, "other")
    \/ StreamEnd(r, 1)
    \/ \E line \in Lines, ms \in Durations :
         reads[r] < MaxReads /\ NonStreamLine(r, line, ms)
    \/ \E ms \in Durations : NonStreamEnd(r, ms)
    \/ Release(r)
    \/ CountDown(r)

SpecStream == InitStream /\ [][NextStream]_vars

\* what a read can return of upstreamBody after n reads of one line each: the next
\* line, or all the remaining lines and the end of the body
BodyChunks(n) ==
  (IF n < Len(upstreamBody) THEN {<<Terminated(upstreamBody[n + 1]), "nil">>} ELSE {})
    \cup {<<JoinLines(upstreamBody, n + 1, newline), "EOF">> : newline \in BOOLEAN}

\* the request: one request of every shape, every outcome of the token fetch, a short
\* upstream exchange
NextChat ==
  \E r \in {1} :
    \/ Arrive(r)
    \/ CountUp(r)
    \/ \E bodyOk \in BOOLEAN, auth \in AuthHeaders, jsonOk \in BOOLEAN, stream \in BOOLEAN,
          model \in ModelNames, ms \in Durations :
         ChatBegin(r, bodyOk, auth, jsonOk, stream, model, ms)
    \/ \E fetch \in FetchOutcomes : ChatToken(r, fetch)
    \/ LoopHead(r)
    \/ \E outcome \in {"200", "500"} : AttemptReturn(r, outcome)
    \/ \E ms \in Durations : ChatDispatched(r, ms)
    \/ StreamRead(r, TRUE, Terminated(DataLine(<<"[DONE]">>)), "EOF")
    \/ \E ms \in Durations : StreamEnd(r, ms)
    \/ \E ms \in Durations : NonStreamEnd(r, ms)
    \/ Release(r)
    \/ CountDown(r)

SpecChat == InitChat /\ [][NextChat]_vars

\* one authorized request whose upstream answers 200 with the body upstreamBody: the
\* translator reads it one line per read and the remainder with the last read, the
\* aggregator scans it line by line
NextBody ==
  \E r \in {1} :
    \/ Arrive(r)
    \/ CountUp(r)
    \/ \E stream \in BOOLEAN : ChatBegin(r, TRUE, <<"Bearer ", "KEY">>, TRUE, stream, defaultModelName, 1)
    \/ ChatToken(r, "ok")
    \/ LoopHead(r)
    \/ AttemptReturn(r, "200")
    \/ ChatDispatched(r, 1)
    \/ \E chunk \in BodyChunks(reads[r]) : StreamRead(r, TRUE, chunk[1], chunk[2])
    \/ StreamEnd(r, 1)
    \/ /\ reads[r] < Len(upstreamBody)
       /\ NonStreamLine(r, upstreamBody[reads[r] + 1], 1)
    \/ /\ reads[r] = Len(upstreamBody)
       /\ NonStreamEnd(r, 1)
    \/ Release(r)
    \/ CountDown(r)

SpecBody == InitBody /\ [][NextBody]_vars

\* the same exchange for the upstream bodies with edit_content or reasoning_content
SpecSplice == InitSplice /\ [][NextBody]_vars

\* the token choice: concurrent authorized requests, every outcome of each token fetch,
\* an upstream that answers 200 with an empty body
NextToken ==
  \E r \in Reqs :
    \/ Arrive(r)
    \/ CountUp(r)
    \/ ChatBegin(r, TRUE, <<"Bearer ", "KEY">>, TRUE, FALSE, defaultModelName, 0)
    \/ \E fetch \in FetchOutcomes : ChatToken(r, fetch)
    \/ LoopHead(r)
    \/ AttemptReturn(r, "200")
    \/ ChatDispatched(r, 0)
    \/ NonStreamEnd(r, 0)
    \/ Release(r)
    \/ CountDown(r)

SpecToken == InitToken /\ [][NextToken]_vars

\* transformThinking applied to a text, and again to its result
SpecThink == InitThink /\ [][Transform]_vars

(***************************************************************************)
(* Properties                                                              *)
(***************************************************************************)
InHandler == {"chat", "token", "loop", "backoff", "jitter", "attempt", "ratewait",
              "dispatched", "stream", "streamend", "nonstream"}
Returned == {"deferred", "released", "done"}

Count(s, kind) == Cardinality({k \in 1..Len(s) : s[k].kind = kind})

\* C1: across any interleaving of chat requests, currentConnections never exceeds
\* maxConcurrentConnections.
C1_CounterWithinLimit == currentConnections <= maxConcurrentConnections

\* C2: a request that arrives while every permit is held is answered 503 in that same
\* step: no counter, no permit and no other request changes, and the request never
\* enters the handler or reaches the upstream.
C2_SaturationRejects ==
  /\ [][\A r \in Reqs :
          (pc[r] = "idle" /\ pc'[r] # "idle"
             /\ connectionSemaphore = maxConcurrentConnections)
          => /\ pc'[r] = "rejected"
             /\ status'[r] = 503
             /\ out'[r] = <<ErrorJSON("Server too busy, please try again later")>>
             /\ UNCHANGED <<requestCount, errorCount, totalResponseTime,
                            currentConnections, connectionSemaphore>>
             /\ \A q \in Reqs \ {r} :
                  pc'[q] = pc[q] /\ out'[q] = out[q] /\ status'[q] = status[q]]_vars
  /\ [][\A r \in Reqs : pc[r] = "rejected" => pc'[r] = "rejected"]_vars
  /\ [](\A r \in Reqs : pc[r] = "rejected" => attempts[r] = 0 /\ authToken[r] = <<>>)

\* a request has been rejected while another one is inside the handler
C2_Witness ==
  \E r \in Reqs, q \in Reqs :
    /\ pc[r] = "rejected" /\ status[r] = 503
    /\ pc[q] \in InHandler
    /\ maxConcurrentConnections >= 1

\* C3: in a streaming response [DONE] is written at most once, at most one finish
\* chunk is written and it comes before [DONE], and nothing follows [DONE].
C3_TerminatorOnceAndLast ==
  \A r \in Reqs :
    /\ Count(out[r], "done") <= 1
    /\ Count(out[r], "finish") <= 1
    /\ \A k \in 1..Len(out[r]) : out[r][k].kind = "done" => k = Len(out[r])

\* the stream was closed by a finish chunk and [DONE] while upstream lines were
\* still waiting in the line buffer
C3_Witness ==
  /\ pc[1] = "deferred" /\ isStream[1]
  /\ streamClosed[1] /\ lineBuffer[1] # <<>>
  /\ Count(out[1], "finish") = 1 /\ Count(out[1], "done") = 1

\* C4: when the upstream body of a streaming response ends (EOF) and no done flag, done
\* phase, error event or [DONE] line was seen, the response still ends with exactly one
\* [DONE].
C4_DoneAfterSilentEOF ==
  \A r \in Reqs :
    (pc[r] \in Returned /\ isStream[r] /\ status[r] = 200
       /\ bodyEnded[r] = "EOF" /\ ~streamClosed[r])
    => /\ Count(out[r], "done") = 1
       /\ out[r][Len(out[r])] = DoneFrame

\* C5: the first frame of every streaming response is the opener, it is written before
\* the first read of the upstream body, and it is written once, also for an empty body.
C5_OpenerFirst ==
  \A r \in Reqs :
    /\ (isStream[r] /\ status[r] = 200)
         => /\ out[r] # <<>>
            /\ out[r][1] = Opener
            /\ Count(out[r], "opener") = 1
    /\ (pc[r] = "stream" /\ reads[r] = 0) => out[r] = <<Opener>>
    /\ reads[r] > 0 /\ isStream[r] => out[r] # <<>> /\ out[r][1] = Opener

\* a streaming response whose upstream body was empty
C5_Witness ==
  /\ pc[1] = "deferred" /\ isStream[1]
  /\ reads[1] = 1 /\ bodyEnded[1] = "EOF" /\ lineBuffer[1] = <<>>
  /\ out[1] = <<Opener>>

\* the kinds of response a client can be left with
JSONCompletion(r) == status[r] = 200 /\ Len(out[r]) = 1 /\ out[r][1].kind = "completion"
FramedStream(r) ==
  /\ status[r] = 200
  /\ Len(out[r]) >= 2
  /\ out[r][1] = Opener
  /\ out[r][Len(out[r])] = DoneFrame
  /\ \A k \in 1..Len(out[r]) : out[r][k].kind \in {"opener", "content", "reasoning", "finish", "done"}
ErrorObject(r) == status[r] >= 400 /\ Len(out[r]) = 1 /\ out[r][1].kind = "error"

\* C6: once the handler has returned, the client has received either a well-framed
\* response (a JSON completion, or an SSE stream ended by [DONE]) or a single JSON error
\* object with a status >= 400.
C6_OneKindOfResponse ==
  \A r \in Reqs :
    pc[r] \in Returned => (JSONCompletion(r) \/ FramedStream(r) \/ ErrorObject(r))

\* C7: requestWithRetry makes at most maxRetries upstream attempts, and every way back
\* to the loop head from an attempt (an error, a 429/403 after its wait, another status)
\* takes one unit of the budget, so the loop ends.
C7_AttemptsBounded ==
  /\ [](\A r \in Reqs : attempts[r] <= maxRetries /\ i[r] <= maxRetries /\ attempts[r] <= i[r] + 1)
  /\ [][\A r \in Reqs :
          (pc[r] \in {"attempt", "ratewait"} /\ pc'[r] = "loop") => i'[r] = i[r] + 1]_vars

\* the whole budget of at least two attempts was used and the last attempt met a 429
C7_Witness ==
  /\ pc[1] = "dispatched" /\ maxRetries >= 2
  /\ attempts[1] = maxRetries /\ lastAttempt[1] = "429" /\ retErr[1] # "nil"

\* C8: the attempt that returns 200 ends requestWithRetry at once with that response,
\* no further attempt is made, and the client is answered with status 200.
C8_FirstSuccessReturns ==
  /\ [][\A r \in Reqs :
          (pc[r] = "attempt" /\ pc'[r] # "attempt" /\ lastAttempt'[r] = "200")
          => pc'[r] = "dispatched" /\ retResp'[r] /\ retErr'[r] = "nil"]_vars
  /\ [][\A r \in Reqs : retResp[r] => attempts'[r] = attempts[r]]_vars
  /\ [](\A r \in Reqs : (retResp[r] /\ pc[r] \in Returned) => status[r] = 200)

\* the third attempt was the first to succeed, and the client has its 200
C8_Witness ==
  /\ pc[1] = "deferred" /\ retResp[1] /\ attempts[1] = 3 /\ status[1] = 200

\* the error an attempt's outcome stands for
ErrorOfAttempt(outcome) ==
  CASE outcome \in {"429", "403", "500"} -> "HTTP" \o outcome
    [] OTHER -> outcome

\* C9: when all maxRetries attempts have failed, requestWithRetry returns the error of
\* the last attempt, also when that attempt met a 429 or a 403.
C9_LastErrorReturned ==
  \A r \in Reqs :
    (pc[r] = "dispatched" /\ maxRetries > 0 /\ attempts[r] = maxRetries
       /\ i[r] = maxRetries /\ ~retResp[r])
    => retErr[r] = ErrorOfAttempt(lastAttempt[r])

\* C10: once the context is done, a dispatcher that is in one of its sleeps leaves the
\* sleep only by returning the context error, without another attempt.
C10_SleepsAbandoned ==
  [][\A r \in Reqs :
       (ctxDone[r] /\ pc[r] \in {"backoff", "jitter", "ratewait"} /\ pc'[r] # pc[r])
       => pc'[r] = "dispatched" /\ retErr'[r] = "ctxErr" /\ attempts'[r] = attempts[r]]_vars

\* C11: when requestWithRetry returns an error (the attempts are used up, or the deadline
\* has passed), chatHandler answers once with 502 and a JSON body that carries the error,
\* the details, retry_after = 60 and the performance mode, and it returns without
\* entering handleNonStreamResponse or handleStreamResponse.
C11_BadGatewayOnTerminalError ==
  /\ [](\A r \in Reqs :
         (pc[r] \in Returned /\ retErr[r] # "nil")
         => /\ status[r] = 502
            /\ Len(out[r]) = 1
            /\ DOMAIN out[r][1] = {"kind", "text", "details", "retry_after", "performance_mode"}
            /\ out[r][1].kind = "error"
            /\ out[r][1].text = <<"External API request failed">>
            /\ out[r][1].details = retErr[r]
            /\ out[r][1].retry_after = 60
            /\ out[r][1].performance_mode = performanceMode
            /\ reads[r] = 0 /\ fullContent[r] = <<>> /\ lineBuffer[r] = <<>>)
  /\ [][\A r \in Reqs :
          (pc[r] = "dispatched" /\ retErr[r] # "nil" /\ pc'[r] # pc[r])
          => pc'[r] = "deferred" /\ status'[r] = 502]_vars
  /\ [][\A r \in Reqs : status[r] = 502 => out'[r] = out[r] /\ status'[r] = 502]_vars

\* the deadline passed during the wait after a 429 and the client has its 502
C11_Witness ==
  /\ pc[1] = "deferred" /\ status[1] = 502
  /\ ctxDone[1] /\ retErr[1] = "ctxErr" /\ lastAttempt[1] = "429"
  /\ performanceMode = "fast"

\* the credentials of an Authorization header of the Bearer scheme
BearerOf(auth) == TrimSpace(SubSeq(auth, 2, Len(auth)))

\* the header is missing, or it is a Bearer header whose credentials are not the key
WrongBearer(auth) ==
  \/ auth = <<>>
  \/ Head(auth) = "Bearer " /\ BearerOf(auth) # defaultKey

C13_BearerSchemeRequired ==
  \A r \in Reqs :
    (pc[r] \in InHandler \cup Returned /\ pc[r] # "chat" /\ request[r].bodyOk
       /\ ~(request[r].auth # <<>> /\ Head(request[r].auth) = "Bearer "
              /\ BearerOf(request[r].auth) = defaultKey))
    => status[r] = 401

\* the requests chatHandler has answered with an error status
Failed == {r \in Reqs : pc[r] # "rejected" /\ status[r] >= 400}

\* C14: errorCount counts exactly the accepted requests answered with a status >= 400
\* (400, 401, 502): each of them adds one, in the step that answers it, and a request
\* answered 200 adds nothing, on every exit path of chatHandler.
C14_ErrorCountMatchesStatus ==
  /\ [](errorCount = Cardinality(Failed))
  /\ [](\A r \in Reqs : pc[r] \in Returned => status[r] \in {200, 400, 401, 502})
  /\ [][\A r \in Reqs :
          (pc[r] \in InHandler /\ pc'[r] \in Returned)
          => errorCount' = errorCount + (IF status'[r] >= 400 THEN 1 ELSE 0)]_vars

\* a streaming request was answered 200 and then closed on an upstream error event:
\* nothing was added to errorCount
C14_Witness ==
  /\ pc[1] = "deferred" /\ isStream[1] /\ status[1] = 200
  /\ out[1] = <<Opener, FinishChunk, DoneFrame>>
  /\ errorCount = 0 /\ requestCount = 1

\* the requests whose handler has returned
Answered == {r \in Reqs : pc[r] \in Returned}

RECURSIVE SumResponseTime(_)
SumResponseTime(S) ==
  IF S = {} THEN 0
  ELSE LET r == CHOOSE x \in S : TRUE IN responseTime[r] + SumResponseTime(S \ {r})

\* C15: when no request is inside the handler, requestCount is the number of requests
\* answered by chatHandler and totalResponseTime is the sum of their observed durations,
\* whichever way each of them left the handler.
C15_CountersMatchRequests ==
  (\A r \in Reqs : pc[r] \in Returned \cup {"idle", "rejected"})
  => /\ requestCount = Cardinality(Answered)
     /\ totalResponseTime = SumResponseTime(Answered)

(***************************************************************************)
(* Properties of the responses to an upstream body that is fixed in advance*)
(***************************************************************************)
\* the payload of a "data: " line, and the event it parses to
PayloadOf(line) == TrimPrefix(line, DataPrefix)
EventOf(line) == JsonUnmarshal(PayloadOf(line)).data

IsDoneLine(line) == line = DataLine(<<"[DONE]">>)
IsEventLine(line) ==
  HasPrefix(line, DataPrefix) /\ ~IsDoneLine(line) /\ JsonUnmarshal(PayloadOf(line)).ok
IsBadLine(line) ==
  /\ HasPrefix(line, DataPrefix) /\ ~IsDoneLine(line) /\ PayloadOf(line) # <<>>
  /\ ~JsonUnmarshal(PayloadOf(line)).ok
IsErrorLine(line) == IsEventLine(line) /\ EventOf(line).err # "none"

\* an event of phase "answer" that carries only delta_content
IsAnswerLine(line) ==
  /\ IsEventLine(line)
  /\ EventOf(line).phase = "answer" /\ EventOf(line).err = "none"
  /\ EventOf(line).edit = <<>> /\ ~EventOf(line).done

\* the done signal: an event with the done flag and nothing else, or the [DONE] line
IsDoneMarker(line) ==
  \/ IsDoneLine(line)
  \/ /\ IsEventLine(line) /\ EventOf(line).err = "none"
     /\ (EventOf(line).done \/ EventOf(line).phase = "done")
     /\ EventOf(line).delta = <<>> /\ EventOf(line).edit = <<>>

\* answer events d1..dn, n >= 0, followed by the done signal
AnswersThenDone(lines) ==
  /\ lines # <<>>
  /\ IsDoneMarker(lines[Len(lines)])
  /\ \A k \in 1..(Len(lines) - 1) : IsAnswerLine(lines[k])

\* d1 || ... || dn
RECURSIVE Deltas(_)
Deltas(lines) ==
  IF lines = <<>> THEN <<>>
  ELSE (IF IsEventLine(Head(lines)) THEN EventOf(Head(lines)).delta ELSE <<>>)
         \o Deltas(Tail(lines))

\* the texts of the frames of one kind, concatenated in the order of emission
RECURSIVE TextOf(_, _)
TextOf(frames, kind) ==
  IF frames = <<>> THEN <<>>
  ELSE (IF Head(frames).kind = kind THEN Head(frames).text ELSE <<>>)
         \o TextOf(Tail(frames), kind)

StreamAnswered(r) == pc[r] \in Returned /\ isStream[r] /\ status[r] = 200

\* C16: for an upstream body of answer events with delta_content d1..dn followed by the
\* done signal, the content chunks of the streaming response, concatenated in the order
\* they were written, are d1 || ... || dn, and no reasoning chunk is written.
C16_StreamContentIsConcatenation ==
  \A r \in Reqs :
    (StreamAnswered(r) /\ AnswersThenDone(upstreamBody))
    => /\ TextOf(out[r], "content") = Deltas(upstreamBody)
       /\ Count(out[r], "content") = Cardinality({k \in 1..Len(upstreamBody) :
                                                   IsAnswerLine(upstreamBody[k])})
       /\ Count(out[r], "reasoning") = 0

\* two different deltas and the done event, received by reads that cut the body
C16_Witness ==
  /\ StreamAnswered(1) /\ reads[1] = 2
  /\ upstreamBody = <<DataLine(<<"ans_a">>), DataLine(<<"ans_b">>), DataLine(<<"done_flag">>)>>
  /\ reqMethod = [r \in Reqs |-> "POST"]
  /\ transformed = <<>>
  /\ out[1] = <<Opener, ContentChunk(<<"a">>), ContentChunk(<<"b">>), FinishChunk, DoneFrame>>

\* C17: for the same bodies the non-streaming response is written once, after the done
\* signal or the end of the body: status 200 and one completion whose single choice has
\* role assistant, content d1 || ... || dn and finish_reason stop; nothing reaches the
\* client while the body is being collected.
C17_AggregateIsConcatenation ==
  \A r \in Reqs :
    /\ (pc[r] \in Returned /\ ~isStream[r] /\ retResp[r] /\ AnswersThenDone(upstreamBody))
       => /\ status[r] = 200
          /\ out[r] = <<[kind |-> "completion", text |-> Deltas(upstreamBody),
                         role |-> "assistant", finish_reason |-> "stop"]>>
    /\ pc[r] = "nonstream" => out[r] = <<>> /\ status[r] = 0

\* two different deltas and the done event collected into one completion
C17_Witness ==
  /\ pc[1] = "deferred" /\ ~isStream[1] /\ reads[1] = 3
  /\ upstreamBody = <<DataLine(<<"ans_a">>), DataLine(<<"ans_b">>), DataLine(<<"done_flag">>)>>
  /\ reqMethod = [r \in Reqs |-> "POST"]
  /\ transformed = <<>>
  /\ out[1] = <<Completion(<<"a", "b">>)>>

\* the lines of a body without those whose payload is not JSON
RECURSIVE WithoutBadLines(_)
WithoutBadLines(lines) ==
  IF lines = <<>> THEN <<>>
  ELSE (IF IsBadLine(Head(lines)) THEN <<>> ELSE <<Head(lines)>>)
         \o WithoutBadLines(Tail(lines))

\* what the read loop makes of a body that arrives whole, every line with its newline
Translated(lines) ==
  ProcessLines(LoopState(JoinLines(lines, 1, TRUE), FALSE, FALSE, <<>>), FALSE, <<>>)

\* C18: a "data: " line whose payload is not JSON is skipped: the streaming response to
\* a body that contains such lines consists of the frames of the same body without them,
\* and the stream is closed, and the splice used up, exactly when it is for that body.
C18_BadLineSkipped ==
  \A r \in Reqs :
    (StreamAnswered(r) /\ \E k \in 1..Len(upstreamBody) : IsBadLine(upstreamBody[k]))
    => /\ out[r] = <<Opener>> \o Translated(WithoutBadLines(upstreamBody)).frames
       /\ streamClosed[r] = Translated(WithoutBadLines(upstreamBody)).closed
       /\ sentInitialAnswer[r] = Translated(WithoutBadLines(upstreamBody)).sent
       /\ bufferedThinkContent[r] = <<>> /\ ~isInThinkBlock[r]

\* a line that is not JSON between two answer events left both deltas in place
C18_Witness ==
  /\ StreamAnswered(1)
  /\ upstreamBody = <<DataLine(<<"ans_a">>), DataLine(<<"{bad">>), DataLine(<<"ans_b">>)>>
  /\ reqMethod = [r \in Reqs |-> "POST"]
  /\ transformed = <<>>
  /\ out[1] = <<Opener, ContentChunk(<<"a">>), ContentChunk(<<"b">>)>>
  /\ ~streamClosed[1]

\* the first line of the body that carries an error while the stream is still open
FirstError(lines) ==
  {k \in 1..Len(lines) :
     /\ IsErrorLine(lines[k])
     /\ ~Translated(SubSeq(lines, 1, k - 1)).closed}

\* C19: an event with an error at the top level, in data.error or in data.inner.error ends
\* the streaming response: after the frames of the lines before it come exactly the
\* finish chunk and [DONE], nothing of the event's own delta_content or edit_content is
\* written, the stream is marked closed and no further read is made.
C19_ErrorEventClosesStream ==
  /\ [](\A r \in Reqs : \A k \in FirstError(upstreamBody) :
          StreamAnswered(r)
          => /\ out[r] = <<Opener>> \o Translated(SubSeq(upstreamBody, 1, k - 1)).frames
                           \o <<FinishChunk, DoneFrame>>
             /\ streamClosed[r]
             /\ reads[r] <= k)
  /\ [][\A r \in Reqs : streamClosed[r] => reads'[r] = reads[r] /\ out'[r] = out[r]]_vars

\* an answer event, then an event with data.error that also carries delta_content and
\* edit_content, then more lines that were never read
C19_Witness ==
  /\ StreamAnswered(1) /\ reads[1] = 2
  /\ upstreamBody = <<DataLine(<<"ans_a">>), DataLine(<<"err_data">>), DataLine(<<"ans_b">>)>>
  /\ reqMethod = [r \in Reqs |-> "POST"]
  /\ transformed = <<>>
  /\ out[1] = <<Opener, ContentChunk(<<"a">>), FinishChunk, DoneFrame>>
  /\ streamClosed[1]

\* an event without error, edit_content, done flag or done phase
IsRoutedLine(line) ==
  /\ IsEventLine(line)
  /\ EventOf(line).err = "none" /\ EventOf(line).edit = <<>>
  /\ ~EventOf(line).done /\ EventOf(line).phase # "done"

\* the chunk the delta_content of an event belongs in
Routed(d) ==
  IF d.delta = <<>> THEN <<>>
  ELSE IF d.phase # "thinking" THEN <<[kind |-> "content", text |-> d.delta]>>
  ELSE IF transformThinking(d.delta) = <<>> THEN <<>>
  ELSE <<[kind |-> "reasoning", text |-> transformThinking(d.delta)]>>

RECURSIVE RoutedAll(_)
RoutedAll(lines) ==
  IF lines = <<>> THEN <<>>
  ELSE (IF IsRoutedLine(Head(lines)) THEN Routed(EventOf(Head(lines))) ELSE <<>>)
         \o RoutedAll(Tail(lines))

IsContentOrReasoning(f) == f.kind \in {"content", "reasoning"}

\* C20: for a body of events that carry only delta_content (and possibly a closing done
\* signal), the content and reasoning chunks of the streaming response are, in order:
\* for each thinking event the transformed delta as reasoning_content, or nothing when
\* the transformer leaves nothing, and for each event of any other phase the unchanged
\* delta as content.
C20_PhaseRouting ==
  \A r \in Reqs :
    (StreamAnswered(r)
       /\ \A k \in 1..Len(upstreamBody) :
            \/ IsRoutedLine(upstreamBody[k])
            \/ k = Len(upstreamBody) /\ IsDoneMarker(upstreamBody[k]))
    => SelectSeq(out[r], IsContentOrReasoning) = RoutedAll(upstreamBody)

\* a thinking event, an event of another phase, and a thinking event of which the
\* transformer leaves nothing
C20_Witness ==
  /\ StreamAnswered(1)
  /\ upstreamBody = <<DataLine(<<"think_t">>), DataLine(<<"other_o">>), DataLine(<<"think_none">>)>>
  /\ reqMethod = [r \in Reqs |-> "POST"]
  /\ transformed = <<>>
  /\ out[1] = <<Opener, ReasoningChunk(<<"<think>", "t", "</think>">>), ContentChunk(<<"o">>)>>

(***************************************************************************)
(* Properties of the first-answer splice                                   *)
(***************************************************************************)
\* the text after the first </details> of an edit_content, up to the next one
SpliceTextOf(line) == SplitDetails(EventOf(line).edit)[2]

\* an answer event whose edit_content has such a text
IsSpliceLine(line) ==
  /\ IsEventLine(line) /\ EventOf(line).err = "none" /\ EventOf(line).phase = "answer"
  /\ Len(SplitDetails(EventOf(line).edit)) > 1
  /\ SpliceTextOf(line) # <<>>

\* the content chunks among frames that carry the text spliced out of a line of the body
SplicedChunks(frames) ==
  {k \in 1..Len(frames) :
     /\ frames[k].kind = "content"
     /\ \E j \in 1..Len(upstreamBody) :
          IsSpliceLine(upstreamBody[j]) /\ frames[k].text = SpliceTextOf(upstreamBody[j])}

\* C21: a streaming response carries at most one content chunk taken from edit_content:
\* sentInitialAnswer is true exactly when that chunk has been written, it never goes back
\* to false, and once it is true no later answer event with edit_content adds a chunk.
C21_SpliceAtMostOnce ==
  /\ [](\A r \in Reqs :
          /\ Cardinality(SplicedChunks(out[r])) <= 1
          /\ sentInitialAnswer[r] <=> Cardinality(SplicedChunks(out[r])) = 1)
  /\ [][\A r \in Reqs :
          sentInitialAnswer[r]
          => /\ sentInitialAnswer'[r]
             /\ SplicedChunks(out'[r]) = SplicedChunks(out[r])]_vars

\* two answer events whose edit_content could both be spliced: only the first one was
C21_Witness ==
  /\ StreamAnswered(1) /\ reads[1] = 2
  /\ upstreamBody = <<DataLine(<<"edit_h">>), DataLine(<<"edit_two">>)>>
  /\ reqMethod = [r \in Reqs |-> "POST"]
  /\ transformed = <<>>
  /\ out[1] = <<Opener, ContentChunk(<<"H">>), ContentChunk(<<"c">>)>>
  /\ sentInitialAnswer[1]

(***************************************************************************)
(* Properties of the token choice                                          *)
(***************************************************************************)
\* the request has left the token choice of chatHandler
TokenChosen(r) ==
  pc[r] \in (InHandler \cup Returned) \ {"chat", "token"} /\ status[r] \notin {400, 401}

\* C22: the bearer token sent upstream is the token fetched for this request when the
\* anonymous token is enabled and its fetch succeeded, and the static upstream token
\* otherwise (disabled: no fetch is made; network error, non-200, malformed JSON, empty
\* token); the fetch changes nothing the client sees, and no two requests use the same
\* fetched token.
C22_TokenChoice ==
  /\ [](\A r \in Reqs :
          TokenChosen(r)
          => /\ authToken[r] = IF anonTokenEnabled /\ anonFetch[r] = "ok"
                               THEN <<"ANON", r>> ELSE upstreamToken
             /\ anonTokenEnabled <=> anonFetch[r] # "none")
  /\ [](\A r \in Reqs : \A q \in Reqs \ {r} :
          (TokenChosen(r) /\ TokenChosen(q) /\ authToken[r] = authToken[q])
          => authToken[r] = upstreamToken)
  /\ [][\A r \in Reqs :
          (pc[r] = "token" /\ pc'[r] # "token")
          => /\ pc'[r] = "loop"
             /\ status'[r] = status[r] /\ out'[r] = out[r]
             /\ errorCount' = errorCount]_vars
  /\ [](\A r \in Reqs : (pc[r] \in Returned /\ retResp[r]) => status[r] = 200)

\* one request was sent upstream with the token fetched for it, another one, whose fetch
\* returned malformed JSON, with the static token, and both were answered 200
C22_Witness ==
  /\ anonTokenEnabled
  /\ pc[1] = "deferred" /\ anonFetch[1] = "ok" /\ authToken[1] = <<"ANON", 1>>
  /\ pc[2] = "deferred" /\ anonFetch[2] = "badjson" /\ authToken[2] = upstreamToken
  /\ status[1] = 200 /\ status[2] = 200

(***************************************************************************)
(* Properties of the model name                                            *)
(***************************************************************************)
\* the frames that carry a model field
HasModel(f) == f.kind \in {"opener", "content", "reasoning", "finish", "completion"}

\* C23: the opener, every chunk of a streaming response and the non-streaming response
\* carry as model the public model name the request named, and the default model name
\* only when the request named none.
C23_ModelEchoed ==
  \A r \in Reqs : \A k \in 1..Len(out[r]) :
    HasModel(out[r][k])
    => ChunkModel(out[r][k]) = IF chatReqModel[r] = "" THEN defaultModelName
                               ELSE chatReqModel[r]

(***************************************************************************)
(* Properties of OPTIONS requests                                          *)
(***************************************************************************)
\* C24: an OPTIONS request to /v1/chat/completions whose body can be read is, like an
\* OPTIONS request to any other path, answered 200.
C24_OptionsAnswered200 ==
  \A r \in Reqs :
    (reqMethod[r] = "OPTIONS" /\ pc[r] \in Returned \cup {"rejected"} /\ request[r].bodyOk)
    => status[r] = 200

(***************************************************************************)
(* Properties of transformThinking                                         *)
(***************************************************************************)
\* no <summary>, no <details ...>, none of </thinking>, <Full>, </Full>
NoTags(s) ==
  \A k \in 1..Len(s) :
    s[k] \notin {"<summary>", "</thinking>", "<Full>", "</Full>"} \cup DetailsOpenTags

\* no "> " at the start of the text, leading whitespace aside, or at the start of a line
NoQuotePrefix(s) ==
  /\ ~HasPrefix(TrimSpace(s), <<">", " ">>)
  /\ \A k \in 1..Len(s) : ~HasPrefix(SubSeq(s, k, Len(s)), <<"\n", ">", " ">>)

\* the text was transformed twice and the second call changed nothing
Idempotent == Len(transformed) = 3 => transformed[3] = transformed[2]

\* C25 as stated: T(T(s)) = T(s) for every s with no <summary>, no <details>, none of
\* </thinking>, <Full>, </Full> and no "> " prefix, in each think-tags mode.
C25_IdempotentAsStated ==
  (transformed # <<>> /\ NoTags(transformed[1]) /\ NoQuotePrefix(transformed[1]))
  => Idempotent

\* C25, amended: T(T(s)) = T(s) for every s with no <summary>, no <details>, no
\* </details>, none of </thinking>, <Full>, </Full> and no "> " prefix, in each
\* think-tags mode.
C25_IdempotentWithoutDetails ==
  (transformed # <<>> /\ NoTags(transformed[1]) /\ NoQuotePrefix(transformed[1])
     /\ Positions(transformed[1], "</details>") = {})
  => Idempotent

\* a text with spaces at both ends and a ">" that is not followed by a space was
\* transformed twice in strip mode: the first call trimmed it, the second changed nothing
C25_Witness ==
  /\ thinkTagsMode = "strip"
  /\ transformed = << <<" ", "x", ">", "\n">>, <<"x", ">">>, <<"x", ">">> >>

(***************************************************************************)
(* Properties of the sleeps of requestWithRetry                            *)
(***************************************************************************)
\* C26: the backoff sleep that starts after i failed attempts, i >= 1, lasts exactly
\* retryDelay * 2^(i-1) ms: the first retry waits the base delay.
C26_BackoffDoublesFromBase ==
  [][\A r \in Reqs :
       (pc[r] # "backoff" /\ pc'[r] = "backoff" /\ attempts[r] = i[r])
       => timer'[r] = retryDelay * 2^(i[r] - 1)]_vars

\* the time randomDelay has slept when the attempt is started
JitterSlept(r) == IF pc[r] = "jitter" THEN timer[r] ELSE 0

\* C27: for every configuration with randomDelayMin <= randomDelayMax, also when the two
\* are equal and positive, the jitter sleep before an attempt lasts d ms with
\* randomDelayMin <= d <= randomDelayMax.
C27_JitterWithinBounds ==
  [][\A r \in Reqs :
       (pc[r] # "attempt" /\ pc'[r] = "attempt" /\ randomDelayMin <= randomDelayMax)
       => /\ randomDelayMin <= JitterSlept(r)
          /\ JitterSlept(r) <= randomDelayMax]_vars

(***************************************************************************)
(* Properties of the closed stream                                         *)
(***************************************************************************)
\* C28: once streamClosed is set (by [DONE], a done flag or phase, or an error event) it
\* stays set, the response ends with [DONE], and nothing more happens to the stream: no
\* read, no line processed, no frame written, also not by the code after the read loop.
C28_ClosedIsAbsorbing ==
  /\ [](\A r \in Reqs :
          streamClosed[r]
          => /\ pc[r] \in {"streamend"} \cup Returned
             /\ out[r][Len(out[r])] = DoneFrame)
  /\ [][\A r \in Reqs :
          streamClosed[r]
          => /\ streamClosed'[r]
             /\ out'[r] = out[r]
             /\ reads'[r] = reads[r]
             /\ lineBuffer'[r] = lineBuffer[r]
             /\ sentInitialAnswer'[r] = sentInitialAnswer[r]
             /\ status'[r] = status[r]]_vars

\* the [DONE] line arrived in one read together with an answer event after it: the
\* handler has returned, the event is still in the line buffer and nothing of it was written
C28_Witness ==
  /\ pc[1] = "deferred" /\ streamClosed[1] /\ bodyEnded[1] = "nil"
  /\ lineBuffer[1] = Terminated(DataLine(<<"ans_b">>))
  /\ out[1] = <<Opener, DoneFrame>>

(***************************************************************************)
(* Properties of the buffered thinking                                     *)
(***************************************************************************)
\* an event that carries reasoning_content
IsReasoningLine(line) ==
  IsEventLine(line) /\ PayloadOf(line)[1] \in DOMAIN ReasoningContent

\* the reasoning_content of the events a body begins with, concatenated
RECURSIVE LeadingReasoning(_)
LeadingReasoning(lines) ==
  IF lines = <<>> \/ ~IsReasoningLine(Head(lines)) THEN <<>>
  ELSE ReasoningContent[PayloadOf(Head(lines))[1]] \o LeadingReasoning(Tail(lines))

\* C29: when the upstream body begins with events that carry reasoning_content, their
\* texts are buffered and written as one content chunk "<think>" + buffered + "</think>"
\* right after the opener: before the first content chunk and before the terminal
\* frames, or at the end of the response if neither follows.
C29_ReasoningBufferedAndFlushed ==
  \A r \in Reqs :
    (StreamAnswered(r) /\ LeadingReasoning(upstreamBody) # <<>>)
    => /\ Len(out[r]) >= 2
       /\ out[r][2] = ThinkChunk(LeadingReasoning(upstreamBody))

(***************************************************************************)
(* Properties of a failed read of the upstream body                        *)
(***************************************************************************)
IsSuffix(t, s) == Len(t) <= Len(s) /\ SubSeq(s, Len(s) - Len(t) + 1, Len(s)) = t

\* what processStreamLine makes of the partial line left in the line buffer
PartialLine(r) ==
  processStreamLine(lineBuffer[r], isInThinkBlock[r], bufferedThinkContent[r],
                    sentInitialAnswer[r])

\* C30: when a read of the upstream body fails with an error other than EOF while the
\* line buffer holds a partial line that carries an event, the response ends as it does
\* at EOF: with the frames of that line and then, unless the line itself closed the
\* stream, with [DONE].
C30_ReadErrorFlushes ==
  \A r \in Reqs :
    (StreamAnswered(r) /\ bodyEnded[r] = "other" /\ ~streamClosed[r]
       /\ PartialLine(r).frames # <<>>)
    => IsSuffix(PartialLine(r).frames
                  \o (IF PartialLine(r).closed THEN <<>> ELSE <<DoneFrame>>),
                out[r])

\* ---- the client liveness check of the read loop ----

\* configuration with the connection check enabled or disabled and a short interval
InitProbe ==
  /\ maxConcurrentConnections = 1000
  /\ maxRetries = 1
  /\ retryDelay = 1000
  /\ randomDelayMin = 0
  /\ randomDelayMax = 0
  /\ upstreamURL = "good"
  /\ anonTokenEnabled = FALSE
  /\ thinkTagsMode = "think"
  /\ disableConnectionCheck \in BOOLEAN
  /\ connectionCheckInterval \in 1..MaxReads
  /\ streamBufferSize = 16384
  /\ performanceMode = "balanced"
  /\ upstreamBody = <<>>
  /\ reqMethod = [r \in Reqs |-> "POST"]
  /\ transformed = <<>>
  /\ InitRequests

\* a streaming request whose writer answers the zero-byte write with or without an error
NextProbe ==
  \E r \in {1} :
    \/ Arrive(r)
    \/ CountUp(r)
    \/ ChatBegin(r, TRUE, <<"Bearer ", "KEY">>, TRUE, TRUE, defaultModelName, 1)
    \/ ChatToken(r, "ok")
    \/ LoopHead(r)
    \/ \E outcome \in {"200", "500"} : AttemptReturn(r, outcome)
    \/ \E ms \in Durations : ChatDispatched(r, ms)
    \/ \E alive \in BOOLEAN, chunk \in LineChunks \cup LastChunks, err \in ReadErrors :
         StreamRead(r, alive, chunk, err)
    \/ StreamEnd(r, 1)
    \/ Release(r)
    \/ CountDown(r)

SpecProbe == InitProbe /\ [][NextProbe]_vars

\* the request left the read loop because a probe failed: nothing else ends the loop
\* with the stream open and the body neither ended nor failed
LeftByProbe(r) ==
  /\ isStream[r] /\ status[r] = 200
  /\ pc[r] \notin {"dispatched", "stream"}
  /\ ~streamClosed[r] /\ bodyEnded[r] = "nil"

\* iterations of the read loop begun: every one reads, except the one a failed probe ends
Iterations(r) == reads[r] + (IF LeftByProbe(r) THEN 1 ELSE 0)

\* C31: with the connection check enabled the client is probed exactly in every
\* connectionCheckInterval-th iteration of the read loop, a failed probe ends the
\* loop with no frame written then or later, and with the check disabled no probe
\* is ever made
C31_ProbeSchedule ==
  [][\A r \in {1} :
       /\ (disableConnectionCheck => probes'[r] = 0)
       /\ (~disableConnectionCheck /\ isStream'[r] =>
             probes'[r] = Iterations(r)' \div connectionCheckInterval)
       /\ (LeftByProbe(r)' =>
             /\ out'[r] = out[r]
             /\ reads'[r] = reads[r]
             /\ ~disableConnectionCheck
             /\ Iterations(r)' % connectionCheckInterval = 0)]_vars

\* a probe in the second iteration failed after one read whose frame was written,
\* and the handler has returned
C31_Witness ==
  /\ ~disableConnectionCheck /\ connectionCheckInterval = 2
  /\ LeftByProbe(1) /\ pc[1] \in Returned
  /\ reads[1] = 1 /\ probes[1] = 1
  /\ Len(out[1]) = 2

\* ---- the same upstream bytes cut into reads at any place ----

\* the lines of the bodies that are cut: events, an empty line, a line with surrounding
\* white space, a line of more than 1 MiB
CutLines ==
  { DataLine(<<"ans_a">>), DataLine(<<"ans_b">>), DataLine(<<"done_flag">>), <<>>,
    <<" ">> \o DataLine(<<"think_t">>) \o <<"\r">>, DataLine(<<"big">>) }

\* upstream bodies as lines: all but the last end in a newline, so a body whose last
\* line is empty is one that ends in a newline
CutBodies == UNION { [1..n -> CutLines] : n \in 1..MaxLines }

\* the bytes of the upstream body
BodyBytes == JoinLines(upstreamBody, 1, FALSE)

\* what resp.Body.Read can return after n bytes: any number of the bytes that follow,
\* io.EOF with the last of them or on the read after
BodyCuts(n) ==
  { <<SubSeq(BodyBytes, n + 1, n + k), err>> :
      k \in 0..(Len(BodyBytes) - n), err \in {"nil", "EOF"} }
    \ { c \in { <<SubSeq(BodyBytes, n + 1, n + k), "EOF">> : k \in 0..(Len(BodyBytes) - n) } :
          n + Len(c[1]) # Len(BodyBytes) }

InitCut ==
  /\ maxConcurrentConnections = 1000
  /\ maxRetries = 1
  /\ retryDelay = 1000
  /\ randomDelayMin = 0
  /\ randomDelayMax = 0
  /\ upstreamURL = "good"
  /\ anonTokenEnabled = FALSE
  /\ thinkTagsMode = "think"
  /\ disableConnectionCheck = FALSE
  /\ connectionCheckInterval = 20
  /\ streamBufferSize \in {16384, 2 * LineBufferLimit}
  /\ performanceMode = "balanced"
  /\ upstreamBody \in CutBodies
  /\ reqMethod = [r \in Reqs |-> "POST"]
  /\ transformed = <<>>
  /\ InitRequests

\* one authorized streaming request whose upstream answers 200 with the body
\* upstreamBody, returned by the reads in pieces of any length
NextCut ==
  \E r \in {1} :
    \/ Arrive(r)
    \/ CountUp(r)
    \/ ChatBegin(r, TRUE, <<"Bearer ", "KEY">>, TRUE, TRUE, defaultModelName, 1)
    \/ ChatToken(r, "ok")
    \/ LoopHead(r)
    \/ AttemptReturn(r, "200")
    \/ ChatDispatched(r, 1)
    \/ \E cut \in BodyCuts(bodyRead[r]) : StreamRead(r, TRUE, cut[1], cut[2])
    \/ StreamEnd(r, 1)
    \/ Release(r)
    \/ CountDown(r)

SpecCut == InitCut /\ [][NextCut]_vars

\* the lines from the k-th on handed to processStreamLine one after the other until one
\* closes the stream
RECURSIVE EachLine(_, _, _)
EachLine(lines, k, st) ==
  IF k > Len(lines) \/ st.closed THEN st
  ELSE LET res == processStreamLine(lines[k], FALSE, <<>>, st.sent)
       IN  EachLine(lines, k + 1,
                    LoopState(<<>>, res.closed, res.sent, st.frames \o res.frames))

\* the newlines among the first n bytes of the body
NewlinesIn(n) == {p \in Positions(BodyBytes, "\n") : p <= n}

\* C32: however the bytes of an upstream body are cut into reads, also within a line or
\* within the "data: " prefix, the frames written are those of its lines processed one
\* by one in order: after every read those of the lines complete so far, the rest of
\* the bytes read being kept for the next read, and in the end those of all lines, a
\* last line without newline included once.
C32_CutsDoNotMatter ==
  \A r \in {1} :
    LET start == LoopState(<<>>, FALSE, FALSE, <<>>)
        whole == EachLine(upstreamBody, 1, start)
        sofar == EachLine(SubSeq(upstreamBody, 1, Cardinality(NewlinesIn(bodyRead[r]))), 1, start)
    IN  /\ (StreamAnswered(r) /\ (streamClosed[r] \/ bodyEnded[r] = "EOF"))
           => /\ out[r] = <<Opener>> \o whole.frames
              /\ streamClosed[r] = whole.closed
        /\ (pc[r] = "stream" /\ reads[r] > 0)
           => /\ out[r] = <<Opener>> \o sofar.frames
              /\ ~sofar.closed
              /\ lineBuffer[r] = SubSeq(BodyBytes,
                                        IF NewlinesIn(bodyRead[r]) = {} THEN 1
                                        ELSE Greatest(NewlinesIn(bodyRead[r])) + 1,
                                        bodyRead[r])

\* what the safeguard has removed from the front of the buffer lb
Discarded(lb) == SubSeq(lb, 1, Len(lb) - Len(Safeguard(lb)))

\* C33: in every read the overflow safeguard removes bytes from the line buffer only if
\* the buffer is over the limit and holds no newline, so what it removes contains no
\* complete line that was still to be processed, and the request goes on reading or
\* ends as the read says.
C33_SafeguardDiscardsNoLine ==
  [][\A r \in {1} :
       (pc[r] = "stream" /\ reads'[r] = reads[r] + 1)
       => LET full == lineBuffer[r] \o SubSeq(BodyBytes, bodyRead[r] + 1, bodyRead'[r])
          IN  /\ Discarded(full) # <<>>
                 => /\ ByteLen(full) > LineBufferLimit
                    /\ Positions(full, "\n") = {}
              /\ Positions(Discarded(full), "\n") = {}
              /\ pc'[r] \in {"stream", "streamend"}]_vars

\* ---- the deadlines of a request ----

InitTimeout ==
  /\ maxConcurrentConnections = 1000
  /\ maxRetries \in 1..2
  /\ retryDelay = 1000
  /\ randomDelayMin = 0
  /\ randomDelayMax = 0
  /\ upstreamURL = "good"
  /\ anonTokenEnabled = FALSE
  /\ thinkTagsMode = "think"
  /\ disableConnectionCheck = TRUE
  /\ connectionCheckInterval = 20
  /\ streamBufferSize = 16384
  /\ performanceMode = "balanced"
  /\ upstreamBody = <<>>
  /\ reqMethod = [r \in Reqs |-> "POST"]
  /\ transformed = <<>>
  /\ InitRequests

\* one authorized request, streaming or not: the context's deadline and the client's
\* timeout can each pass while the attempt is made or the body is read
NextTimeout ==
  \E r \in {1} :
    \/ Arrive(r)
    \/ CountUp(r)
    \/ \E stream \in BOOLEAN :
         ChatBegin(r, TRUE, <<"Bearer ", "KEY">>, TRUE, stream, defaultModelName, 1)
    \/ ChatToken(r, "ok")
    \/ LoopHead(r)
    \/ BackoffElapsed(r)
    \/ BackoffCancelled(r)
    \/ \E outcome \in {"200", "500", "timeout", "ctx"} : AttemptReturn(r, outcome)
    \/ Deadline(r)
    \/ ClientTimeout(r)
    \/ ChatDispatched(r, 1)
    \/ \E chunk \in {<<>>, Terminated(DataLine(<<"ans_a">>)), Terminated(DataLine(<<"done_flag">>))},
          err \in ReadErrors :
         StreamRead(r, TRUE, chunk, err)
    \/ StreamEnd(r, 1)
    \/ \E line \in {DataLine(<<"ans_a">>), DataLine(<<"done_flag">>)} :
         reads[r] < MaxReads /\ NonStreamLine(r, line, 1)
    \/ NonStreamEnd(r, 1)
    \/ Release(r)
    \/ CountDown(r)

SpecTimeout == InitTimeout /\ [][NextTimeout]_vars

\* C34: a streaming request is ended by no deadline but the context's: the timeout of
\* the client that makes the attempts never expires while the body is read, and no
\* attempt is ended by it.
C34_OnlyContextDeadline ==
  \A r \in {1} :
    (isStream[r] /\ pc[r] \in {"streamend"} \cup Returned)
    => /\ clientTimer[r] # "expired"
       /\ lastAttempt[r] # "timeout"

\* what follows the first "</details>" of s
AfterFirstDetails(s) == SubSeq(s, Least(Positions(s, "</details>")) + 1, Len(s))

\* C35: when the first event of a body is an answer event whose edit_content fires the
\* splice, the content chunk written for it carries all of edit_content that follows
\* its first "</details>", further "</details>" included.
C35_SpliceIsWholeRemainder ==
  \A r \in {1} :
    (StreamAnswered(r) /\ Len(upstreamBody) > 0 /\ IsSpliceLine(upstreamBody[1]))
    => /\ Len(out[r]) >= 2
       /\ out[r][2] = ContentChunk(AfterFirstDetails(EventOf(upstreamBody[1]).edit))

\* no chat request is between its arrival and the end of its deferred function
Quiescent == \A r \in Reqs : pc[r] \in {"idle", "rejected", "done"}

\* C36: an admitted request gives its permit back and decrements currentConnections
\* once, after its handler has returned, whatever the handler answered (400, 401, 502,
\* a stream, a completion): a step takes a permit back or decrements the counter only
\* as the one such step of a request whose handler has returned, and whenever no
\* request is in flight currentConnections is 0 and no permit is held.
C36_PermitReturnedOnce ==
  /\ [](Quiescent => currentConnections = 0 /\ connectionSemaphore = 0)
  /\ [][/\ connectionSemaphore' < connectionSemaphore
           => /\ connectionSemaphore' = connectionSemaphore - 1
              /\ \E r \in Reqs : pc[r] = "deferred" /\ pc'[r] = "released"
        /\ currentConnections' < currentConnections
           => /\ currentConnections' = currentConnections - 1
              /\ \E r \in Reqs : pc[r] = "released" /\ pc'[r] = "done"
        /\ \A r \in Reqs :
             /\ (pc[r] \in InHandler /\ pc'[r] \notin InHandler) => pc'[r] = "deferred"
             /\ (pc[r] = "deferred" /\ pc'[r] # pc[r])
                => pc'[r] = "released" /\ connectionSemaphore' = connectionSemaphore - 1
             /\ (pc[r] = "released" /\ pc'[r] # pc[r])
                => pc'[r] = "done" /\ currentConnections' = currentConnections - 1
             /\ pc[r] = "done" => pc'[r] = "done"]_vars

\* both requests were admitted, one was answered 502 and one 200, and both have run
\* their deferred function
C36_Witness ==
  /\ Quiescent
  /\ pc[1] = "done" /\ pc[2] = "done"
  /\ status[1] = 502 /\ status[2] = 200
  /\ currentConnections = 0 /\ connectionSemaphore = 0

\* the requests between the acquire of a permit and its release
Holders == {r \in Reqs : pc[r] \in {"acquired", "deferred"} \cup InHandler}

\* C37: in every state the requests between permit acquire and permit release are as
\* many as the permits held and at most maxConcurrentConnections, and
\* currentConnections differs from their number only while some request is between
\* its semaphore operation and its counter update.
C37_HoldersArePermits ==
  /\ connectionSemaphore = Cardinality(Holders)
  /\ Cardinality(Holders) <= maxConcurrentConnections
  /\ currentConnections # Cardinality(Holders)
     => \E r \in Reqs : pc[r] \in {"acquired", "released"}

\* one request has given its permit back and not yet decremented the counter, the
\* other holds the permit and runs its handler: one holder, a counter of two
C37_Witness ==
  /\ pc[1] = "released" /\ pc[2] \in InHandler
  /\ Cardinality(Holders) = 1 /\ connectionSemaphore = 1
  /\ currentConnections = 2

\* the texts of the content and reasoning chunks among frames, in the order written
RECURSIVE EmittedText(_)
EmittedText(frames) ==
  IF frames = <<>> THEN <<>>
  ELSE (IF Head(frames).kind \in {"content", "reasoning"} THEN Head(frames).text ELSE <<>>)
         \o EmittedText(Tail(frames))

\* no event of the body carries edit_content
NoEditContent(lines) ==
  \A k \in 1..Len(lines) : IsEventLine(lines[k]) => EventOf(lines[k]).edit = <<>>

\* C38: for an upstream body without edit_content the content of the non-streaming
\* response is the concatenation, in order, of the texts of the content and reasoning
\* chunks that the streaming translator writes for the same lines, both taking no text
\* from what follows a done flag, a done phase, the [DONE] sentinel or an error event.
C38_AggregatorAgreesWithTranslator ==
  \A r \in {1} :
    (pc[r] \in Returned /\ ~isStream[r] /\ retResp[r] /\ NoEditContent(upstreamBody))
    => /\ Len(out[r]) = 1
       /\ out[r][1].text =
            EmittedText(EachLine(upstreamBody, 1, LoopState(<<>>, FALSE, FALSE, <<>>)).frames)

(***************************************************************************)
(* go-version/main.go: the second proxy. Its chatHandler and its           *)
(* handleStreamResponse use the same names for their state as the main     *)
(* program; the specifications below run them on the same variables.       *)
(***************************************************************************)
\* type Delta struct { Content *string; ReasoningContent *string }, and whether the
\* response has a first choice
GoDelta(choices, hasReasoning, reasoning, hasContent, content) ==
  [choices |-> choices, hasReasoning |-> hasReasoning, reasoning |-> reasoning,
   hasContent |-> hasContent, content |-> content]

\* the JSON documents of a go-version upstream, by name
GoEvents ==
  [ go_reason        |-> GoDelta(1, TRUE, <<"r">>, FALSE, <<>>),
    go_reason_empty  |-> GoDelta(1, TRUE, <<>>, FALSE, <<>>),
    go_content       |-> GoDelta(1, FALSE, <<>>, TRUE, <<"c">>),
    go_content_empty |-> GoDelta(1, FALSE, <<>>, TRUE, <<>>),
    go_both          |-> GoDelta(1, TRUE, <<"s">>, TRUE, <<"d">>),
    go_nochoices     |-> GoDelta(0, FALSE, <<>>, FALSE, <<>>) ]

\* json.Unmarshal([]byte(jsonText), &streamResp)
GoJsonUnmarshal(jsonText) ==
  IF Len(jsonText) = 1 /\ jsonText[1] \in DOMAIN GoEvents
  THEN [ok |-> TRUE, data |-> GoEvents[jsonText[1]]]
  ELSE [ok |-> FALSE, data |-> GoEvents["go_nochoices"]]

\* sendThinkContentSafe: a chunk whose content is "<think>" + content + "</think>"
GoThinkChunk(content) == ContentChunk(<<"<think>">> \o content \o <<"</think>">>)

\* what processLineImproved leaves: the frames written, the three flags
GoLineResult(frames, inThink, buffered, closed) ==
  [frames |-> frames, inThink |-> inThink, buffered |-> buffered, closed |-> closed]

processLineImproved(line0, inThink, buffered) ==
  LET line == TrimSpace(line0)
      jsonText == TrimSpace(SubSeq(line, Len(DataPrefix) + 1, Len(line)))
      parsed == GoJsonUnmarshal(jsonText)
      delta == parsed.data
      flush == IF inThink /\ buffered # <<>> THEN <<GoThinkChunk(buffered)>> ELSE <<>>
      same == GoLineResult(<<>>, inThink, buffered, FALSE)
  IN  IF ~HasPrefix(line, DataPrefix) THEN same
      ELSE IF jsonText = <<"[DONE]">>
      THEN GoLineResult(flush \o <<DoneFrame>>, inThink, buffered, TRUE)
      ELSE IF jsonText = <<>> \/ ~parsed.ok \/ delta.choices = 0 THEN same
      ELSE IF delta.hasReasoning
      THEN GoLineResult(<<>>, TRUE, buffered \o delta.reasoning, FALSE)
      ELSE IF delta.hasContent
      THEN GoLineResult(flush \o (IF delta.content # <<>> THEN <<ContentChunk(delta.content)>>
                                  ELSE <<>>),
                        FALSE, IF flush # <<>> THEN <<>> ELSE buffered, FALSE)
      ELSE same

\* the locals of the go-version read loop that a line can change
GoLoopState(lb, closed, inThink, buffered, frames) ==
  [lb |-> lb, closed |-> closed, inThink |-> inThink, buffered |-> buffered,
   frames |-> frames]

\* for { lineEnd := strings.Index(lineBuffer, "\n"); if lineEnd == -1 { break } ... }
RECURSIVE GoProcessLines(_)
GoProcessLines(st) ==
  IF Positions(st.lb, "\n") = {} THEN st
  ELSE LET lineEnd == Least(Positions(st.lb, "\n"))
           line == SubSeq(st.lb, 1, lineEnd - 1)
           rest == SubSeq(st.lb, lineEnd + 1, Len(st.lb))
           res == processLineImproved(line, st.inThink, st.buffered)
           st2 == IF st.closed THEN [st EXCEPT !.lb = rest]
                  ELSE GoLoopState(rest, res.closed, res.inThink, res.buffered,
                                   st.frames \o res.frames)
       IN  IF st2.closed THEN st2 ELSE GoProcessLines(st2)

\* if err == io.EOF { if lineBuffer != "" && !streamClosed { processLineImproved(lineBuffer, ...) } }
GoAtEOF(st) ==
  IF st.lb # <<>> /\ ~st.closed
  THEN LET res == processLineImproved(st.lb, st.inThink, st.buffered)
       IN  GoLoopState(st.lb, res.closed, res.inThink, res.buffered, st.frames \o res.frames)
  ELSE st

\* requestCount++, first half: the counter is read
GoCountLoad(r) ==
  /\ pc[r] = "idle"
  /\ loaded' = [loaded EXCEPT ![r] = requestCount]
  /\ pc' = [pc EXCEPT ![r] = "counting"]
  /\ UNCHANGED <<cfgVars, counterVars, gateVars, clientVars, request, isStream, chatReqModel,
                 authToken, anonFetch, ctxDone, clientTimer, retryVars, streamVars>>

\* requestCount++, second half: the value read plus one is written
GoCountStore(r) ==
  /\ pc[r] = "counting"
  /\ requestCount' = loaded[r] + 1
  /\ pc' = [pc EXCEPT ![r] = "chat"]
  /\ UNCHANGED <<cfgVars, errorCount, totalResponseTime, gateVars, clientVars, chatVars,
                 ctxDone, clientTimer, retryVars, streamVars>>

\* the ways chatHandler ends with an error: the status it answers
GoFailures == {400, 401, 502, 500}

\* errorCount++, first half, on a failure of the request: body unreadable or not JSON
\* (400), key not valid (401), fetchWithRetry failed (502), upstream body unreadable (500)
GoErrorLoad(r, code) ==
  /\ pc[r] = "chat"
  /\ code \in GoFailures
  /\ loaded' = [loaded EXCEPT ![r] = errorCount]
  /\ status' = [status EXCEPT ![r] = code]
  /\ pc' = [pc EXCEPT ![r] = "failing"]
  /\ UNCHANGED <<cfgVars, counterVars, gateVars, out, responseTime, request, isStream,
                 chatReqModel, authToken, anonFetch, ctxDone, clientTimer, retryVars,
                 streamVars>>

\* errorCount++, second half; after a 502 totalResponseTime += follows, the other
\* failures write their response and return
GoErrorStore(r) ==
  /\ pc[r] = "failing"
  /\ errorCount' = loaded[r] + 1
  /\ IF status[r] = 502
     THEN /\ pc' = [pc EXCEPT ![r] = "timing"]
          /\ UNCHANGED out
     ELSE /\ pc' = [pc EXCEPT ![r] = "done"]
          /\ out' = [out EXCEPT ![r] = <<Frame("error", <<>>)>>]
  /\ UNCHANGED <<cfgVars, requestCount, totalResponseTime, gateVars, status, responseTime,
                 chatVars, ctxDone, clientTimer, retryVars, streamVars>>

\* a non-streaming request whose upstream body was read: totalResponseTime +=, first half
GoNonStream(r) ==
  /\ pc[r] = "chat"
  /\ status' = [status EXCEPT ![r] = 200]
  /\ pc' = [pc EXCEPT ![r] = "timing"]
  /\ UNCHANGED <<cfgVars, counterVars, gateVars, out, responseTime, chatVars,
                 ctxDone, clientTimer, retryVars, streamVars>>

\* totalResponseTime += responseTime.Milliseconds(), first half: the sum is read
GoTimeLoad(r) ==
  /\ pc[r] = "timing"
  /\ loaded' = [loaded EXCEPT ![r] = totalResponseTime]
  /\ pc' = [pc EXCEPT ![r] = "timed"]
  /\ UNCHANGED <<cfgVars, counterVars, gateVars, clientVars, request, isStream, chatReqModel,
                 authToken, anonFetch, ctxDone, clientTimer, retryVars, streamVars>>

\* totalResponseTime +=, second half, then the response is written
GoTimeStore(r, ms) ==
  /\ pc[r] = "timed"
  /\ totalResponseTime' = loaded[r] + ms
  /\ responseTime' = [responseTime EXCEPT ![r] = ms]
  /\ out' = [out EXCEPT ![r] = <<Frame(IF status[r] = 200 THEN "body" ELSE "error", <<>>)>>]
  /\ pc' = [pc EXCEPT ![r] = "done"]
  /\ UNCHANGED <<cfgVars, requestCount, errorCount, gateVars, status, chatVars,
                 ctxDone, clientTimer, retryVars, streamVars>>

\* a streaming request whose upstream answered: handleStreamResponse is entered
GoStreamBegin(r) ==
  /\ pc[r] = "chat"
  /\ FlusherOk
  /\ isStream' = [isStream EXCEPT ![r] = TRUE]
  /\ status' = [status EXCEPT ![r] = 200]
  /\ pc' = [pc EXCEPT ![r] = "stream"]
  /\ UNCHANGED <<cfgVars, counterVars, gateVars, out, responseTime, request, chatReqModel,
                 authToken, anonFetch, loaded, ctxDone, clientTimer, retryVars, streamVars>>

\* one iteration of the go-version for !streamClosed { ... }
GoStreamRead(r, alive, chunk, err) ==
  /\ pc[r] = "stream"
  /\ ~streamClosed[r]
  /\ ByteLen(chunk) <= streamBufferSize
  /\ chunk # <<>> \/ err # "nil"
  /\ err = "nil" => reads[r] + 1 < MaxReads
  /\ LET counted == IF disableConnectionCheck THEN checkCounter[r] ELSE checkCounter[r] + 1
         probed == ~disableConnectionCheck /\ counted % connectionCheckInterval = 0
         lost == probed /\ ~alive
         st0 == GoLoopState(Safeguard(lineBuffer[r] \o chunk), FALSE, isInThinkBlock[r],
                            bufferedThinkContent[r], <<>>)
         st1 == GoProcessLines(st0)
         st2 == IF err = "EOF" THEN GoAtEOF(st1) ELSE st1
     IN  /\ checkCounter' = [checkCounter EXCEPT ![r] = counted]
         /\ probes' = [probes EXCEPT ![r] = IF probed THEN probes[r] + 1 ELSE probes[r]]
         /\ IF lost
            THEN /\ pc' = [pc EXCEPT ![r] = "streamend"]
                 /\ UNCHANGED <<out, lineBuffer, streamClosed, isInThinkBlock,
                                bufferedThinkContent, reads, bodyEnded, bodyRead>>
            ELSE /\ reads' = [reads EXCEPT ![r] = reads[r] + 1]
                 /\ bodyRead' = [bodyRead EXCEPT ![r] = bodyRead[r] + Len(chunk)]
                 /\ bodyEnded' = [bodyEnded EXCEPT ![r] = err]
                 /\ lineBuffer' = [lineBuffer EXCEPT ![r] = st2.lb]
                 /\ streamClosed' = [streamClosed EXCEPT ![r] = st2.closed]
                 /\ isInThinkBlock' = [isInThinkBlock EXCEPT ![r] = st2.inThink]
                 /\ bufferedThinkContent' = [bufferedThinkContent EXCEPT ![r] = st2.buffered]
                 /\ out' = [out EXCEPT ![r] = out[r] \o st2.frames]
                 /\ pc' = [pc EXCEPT ![r] = IF st2.closed \/ err # "nil" THEN "streamend"
                                            ELSE "stream"]
  /\ UNCHANGED <<cfgVars, counterVars, gateVars, status, responseTime, chatVars, ctxDone,
                 clientTimer, retryVars, sentInitialAnswer, fullContent, transformed>>

\* after the loop: if isInThinkBlock && bufferedThinkContent != "" { sendThinkContent(...) }
GoStreamEnd(r) ==
  /\ pc[r] = "streamend"
  /\ out' = [out EXCEPT ![r] =
               out[r] \o (IF isInThinkBlock[r] /\ bufferedThinkContent[r] # <<>>
                          THEN <<GoThinkChunk(bufferedThinkContent[r])>> ELSE <<>>)]
  /\ pc' = [pc EXCEPT ![r] = "done"]
  /\ UNCHANGED <<cfgVars, counterVars, gateVars, status, responseTime, chatVars, ctxDone,
                 clientTimer, retryVars, streamVars>>

\* the lines of a go-version upstream
GoLines ==
  { DataLine(<<e>>) : e \in DOMAIN GoEvents } \cup { DataLine(<<"[DONE]">>), DataLine(<<"{bad">>) }

\* what a read returns: one or two lines, or a line without its newline
GoChunks ==
  {<<>>} \cup GoLines \cup {Terminated(l) : l \in GoLines}
    \cup {Terminated(l) \o Terminated(m) : l, m \in GoLines}

InitGo ==
  /\ maxConcurrentConnections = 1000
  /\ maxRetries = 1
  /\ retryDelay = 1000
  /\ randomDelayMin = 0
  /\ randomDelayMax = 0
  /\ upstreamURL = "good"
  /\ anonTokenEnabled = FALSE
  /\ thinkTagsMode = "think"
  /\ disableConnectionCheck = FALSE
  /\ connectionCheckInterval = 20
  /\ streamBufferSize = 16384
  /\ performanceMode = "balanced"
  /\ upstreamBody = <<>>
  /\ reqMethod = [r \in Reqs |-> "POST"]
  /\ transformed = <<>>
  /\ InitRequests

\* the go-version chat requests, handled concurrently, each ending one of the ways
\* chatHandler can end
NextGoCount ==
  \E r \in Reqs :
    \/ GoCountLoad(r)
    \/ GoCountStore(r)
    \/ \E code \in GoFailures : GoErrorLoad(r, code)
    \/ GoErrorStore(r)
    \/ GoNonStream(r)
    \/ GoTimeLoad(r)
    \/ \E ms \in Durations : GoTimeStore(r, ms)
    \/ GoStreamBegin(r)
    \/ GoStreamRead(r, TRUE, Terminated(DataLine(<<"[DONE]">>)), "EOF")
    \/ GoStreamEnd(r)

SpecGoCount == InitGo /\ [][NextGoCount]_vars

\* one go-version streaming request and what its upstream sends
NextGoStream ==
  \E r \in {1} :
    \/ GoCountLoad(r)
    \/ GoCountStore(r)
    \/ GoStreamBegin(r)
    \/ \E chunk \in GoChunks, err \in ReadErrors : GoStreamRead(r, TRUE, chunk, err)
    \/ GoStreamEnd(r)

SpecGoStream == InitGo /\ [][NextGoStream]_vars

\* C39: when the go-version translator has met [DONE] with isInThinkBlock set and
\* bufferedThinkContent not empty, the response carries the <think> chunk of that
\* content once, directly before the terminator, and the terminator is its last frame.
C39_ThinkOnceBeforeDone ==
  \A r \in {1} :
    (pc[r] = "done" /\ isStream[r] /\ streamClosed[r]
       /\ isInThinkBlock[r] /\ bufferedThinkContent[r] # <<>>)
    => /\ out[r][Len(out[r])] = DoneFrame
       /\ Len(out[r]) >= 2
       /\ out[r][Len(out[r]) - 1] = GoThinkChunk(bufferedThinkContent[r])
       /\ Cardinality({k \in 1..Len(out[r]) :
                         out[r][k] = GoThinkChunk(bufferedThinkContent[r])}) = 1

\* C40: after any interleaving of the go-version chat requests, whenever no request is
\* within its requestCount++, requestCount is the number of requests that have made it.
C40_NoLostRequestCount ==
  (\A r \in Reqs : pc[r] # "counting")
  => requestCount = Cardinality({r \in Reqs : pc[r] # "idle"})

====
